---- MODULE Spec2Model ----
(***************************************************************************)
(* Zotero.Server: the embedded loopback HTTP server of xpcom/server.js.    *)
(*                                                                         *)
(* A connection is one Zotero.Server.DataListener.  Its fields, the bytes  *)
(* still in flight on its socket and the handler calls it has made are the *)
(* state; onDataAvailable, onStopRequest and the completions of endpoint   *)
(* handlers are the actions.  Strings are sequences of one-character       *)
(* strings, so that the chunk scanner and the regular expressions of the   *)
(* source act on the same bytes as the code.                               *)
(***************************************************************************)
EXTENDS Integers, Sequences, FiniteSets, TLC

VARIABLES
    isServer,   \* Zotero.isServer: headless mode
    req,        \* per connection: the request its client sends (never read by the server)
    net,        \* per connection: bytes sent by the client and not yet read
    stopped,    \* per connection: onStopRequest has run
    conns,      \* per connection: the DataListener and what it did to its streams
    server      \* Zotero.Server: serv, _onlineObserverRegistered, and the host's network

vars == <<isServer, req, net, stopped, conns, server>>

(***************************************************************************)
(* Strings                                                                 *)
(***************************************************************************)
Chars(s) == [i \in 1..Len(s) |-> SubSeq(s, i, i)]

CR == "\r"
LF == "\n"
SP == " "
CRLF == <<CR, LF>>

\* JavaScript's undefined and null, and a value of any other shape
Undefined == <<"undefined">>
Null == <<"null">>

Min(S) == CHOOSE x \in S : \A y \in S : x <= y

UpperCase == Chars("ABCDEFGHIJKLMNOPQRSTUVWXYZ")
LowerCase == Chars("abcdefghijklmnopqrstuvwxyz")
Digits == Chars("0123456789")

\* a character class of a regular expression, [...] or [^...]
Class(chars) == [negated |-> FALSE, chars |-> chars]
NotClass(chars) == [negated |-> TRUE, chars |-> chars]
InClass(ch, class) == (ch \in class.chars) # class.negated

Upper == Class({UpperCase[i] : i \in 1..26})
Digit == Class({Digits[i] : i \in 1..10})
IsUpper(ch) == InClass(ch, Upper)
IsDigit(ch) == InClass(ch, Digit)
ToLower(ch) ==
    IF IsUpper(ch) THEN LowerCase[CHOOSE i \in 1..26 : UpperCase[i] = ch] ELSE ch
DigitVal(ch) == (CHOOSE i \in 1..10 : Digits[i] = ch) - 1

\* String.prototype.substr(from) and substr(from, n), 0-based as in the source
SubstrFrom(s, from) == SubSeq(s, from + 1, Len(s))
Substr(s, from, n) == SubSeq(s, from + 1, IF from + n > Len(s) THEN Len(s) ELSE from + n)

\* String.prototype.indexOf: 0-based index of the first occurrence, -1 if none
IndexOf(s, pat) ==
    LET hits == {i \in 0..(Len(s) - Len(pat)) : \A k \in 1..Len(pat) : s[i + k] = pat[k]}
    IN  IF hits = {} THEN -1 ELSE Min(hits)

\* parseInt of a string of decimal digits
RECURSIVE ParseInt(_)
ParseInt(ds) ==
    IF ds = <<>> THEN 0
    ELSE 10 * ParseInt(SubSeq(ds, 1, Len(ds) - 1)) + DigitVal(ds[Len(ds)])

\* Number to decimal string
RECURSIVE NumStr(_)
NumStr(n) == IF n < 10 THEN <<Digits[n + 1]>> ELSE NumStr(n \div 10) \o <<Digits[(n % 10) + 1]>>

\* s matches word at 1-based position i, ignoring case (the /i flag)
MatchCI(s, i, word) ==
    /\ i >= 1
    /\ i + Len(word) - 1 <= Len(s)
    /\ \A k \in 1..Len(word) : ToLower(s[i + k - 1]) = ToLower(word[k])

\* first position >= i whose character is not in the class, Len(s)+1 if none:
\* the end of a greedy run of the class starting at i
RunEnd(s, i, class) ==
    IF i > Len(s) THEN Len(s) + 1
    ELSE CHOOSE j \in i..(Len(s) + 1) :
            /\ j = Len(s) + 1 \/ ~InClass(s[j], class)
            /\ \A k \in i..(j - 1) : InClass(s[k], class)

\* " ", [^ \r\n], [^\r\n], [^ \r\n?], \s and [^\s]
Space == Class({SP})
NotSpCrLf == NotClass({SP, CR, LF})
NotCrLf == NotClass({CR, LF})
NotSpCrLfQ == NotClass({SP, CR, LF, "?"})
White == Class({SP, CR, LF, "\t"})
NotWhite == NotClass({SP, CR, LF, "\t"})
IsWhite(ch) == InClass(ch, White)

\* String.prototype.trim
Trim(s) ==
    LET keep == {i \in 1..Len(s) : ~IsWhite(s[i])}
    IN  IF keep = {} THEN <<>>
        ELSE SubSeq(s, Min(keep), CHOOSE i \in keep : \A j \in keep : j <= i)

\* positions i of s where /[\r\n]<name>/i matches (name ends with its colon)
FieldStarts(s, name) == {i \in 1..Len(s) : s[i] \in {CR, LF} /\ MatchCI(s, i + 1, name)}

(***************************************************************************)
(* The regular expressions of _headerFinished and _processEndpoint.  Each  *)
(* operator is RegExp.prototype.exec on the header: the leftmost match,    *)
(* greedy quantifiers, Null when nothing matches.                          *)
(***************************************************************************)

\* /^([A-Z]+) ([^ \r\n?]+)(\?[^ \r\n]+)?/  ->  whether it matches, and groups 1, 2, 3
methodRe(s) ==
    LET a == RunEnd(s, 1, Upper)
        b == RunEnd(s, a + 1, NotSpCrLfQ)
        c == RunEnd(s, b + 1, NotSpCrLf)
    IN  IF a > 1 /\ a <= Len(s) /\ s[a] = SP /\ b > a + 1
        THEN [matched |-> TRUE,
              method |-> SubSeq(s, 1, a - 1),
              path   |-> SubSeq(s, a + 1, b - 1),
              query  |-> IF b <= Len(s) /\ s[b] = "?" /\ c > b + 1
                         THEN SubSeq(s, b, c - 1) ELSE Undefined]
        ELSE [matched |-> FALSE, method |-> <<>>, path |-> <<>>, query |-> Undefined]

\* /[\r\n]Host: *(localhost|127\.0\.0\.1)(:[0-9]+)?[\r\n]/i  ->  whether it matches
hostRe(s) ==
    \E i \in FieldStarts(s, Chars("Host:")) :
        LET j == RunEnd(s, i + 6, Space)
            k == j + 9
            e == RunEnd(s, k + 1, Digit)
        IN  /\ MatchCI(s, j, Chars("localhost")) \/ MatchCI(s, j, Chars("127.0.0.1"))
            /\ k <= Len(s)
            /\ \/ s[k] \in {CR, LF}
               \/ s[k] = ":" /\ e > k + 1 /\ e <= Len(s) /\ s[e] \in {CR, LF}

\* /[\r\n]<name> *([^ \r\n]+)/i  ->  group 1
TokenAfter(s, name) ==
    LET ok == {i \in FieldStarts(s, name) :
                   LET j == RunEnd(s, i + 1 + Len(name), Space)
                   IN  RunEnd(s, j, NotSpCrLf) > j}
    IN  IF ok = {} THEN Null
        ELSE LET j == RunEnd(s, Min(ok) + 1 + Len(name), Space)
             IN  SubSeq(s, j, RunEnd(s, j, NotSpCrLf) - 1)

\* /[\r\n]Content-Type: *([^ \r\n]+)/i
contentTypeRe(s) == TokenAfter(s, Chars("Content-Type:"))

\* /[\r\n]Origin: *([^ \r\n]+)/i
originRe(s) == TokenAfter(s, Chars("Origin:"))

\* /[\r\n]Zotero-Bookmarklet: *([^ \r\n]+)/i
bookmarkletRe(s) == TokenAfter(s, Chars("Zotero-Bookmarklet:"))

\* /[\r\n]Content-Length: +([0-9]+)/i  ->  group 1
contentLengthRe(s) ==
    LET name == Chars("Content-Length:")
        ok == {i \in FieldStarts(s, name) :
                   LET j == RunEnd(s, i + 1 + Len(name), Space)
                   IN  j > i + 1 + Len(name) /\ RunEnd(s, j, Digit) > j}
    IN  IF ok = {} THEN Null
        ELSE LET j == RunEnd(s, Min(ok) + 1 + Len(name), Space)
             IN  SubSeq(s, j, RunEnd(s, j, Digit) - 1)

\* /[\r\n]User-Agent: +([^\r\n]+)/i  ->  group 1; the class admits a space, so
\* when only spaces follow the colon the last of two or more is the group
uaRe(s) ==
    LET name == Chars("User-Agent:")
        From(i) == i + 1 + Len(name)
        ok == {i \in FieldStarts(s, name) :
                   LET j == RunEnd(s, From(i), Space)
                   IN  j > From(i) /\ (RunEnd(s, j, NotCrLf) > j \/ j > From(i) + 1)}
    IN  IF ok = {} THEN Null
        ELSE LET i == Min(ok)
                 j == RunEnd(s, From(i), Space)
                 e == RunEnd(s, j, NotCrLf)
             IN  IF e > j THEN SubSeq(s, j, e - 1) ELSE <<SP>>

\* contentType[1].split(/\s*;/)[0]: the token up to its first ';'
SplitContentType(tok) ==
    LET i == IndexOf(tok, <<";">>)
    IN  IF i = -1 THEN tok ELSE SubSeq(tok, 1, i)

(***************************************************************************)
(* Zotero.Server.responseCodes and Zotero.Server.Endpoints                 *)
(***************************************************************************)
responseCodes ==
    (200 :> Chars("OK")) @@ (201 :> Chars("Created")) @@ (204 :> Chars("No Content")) @@
    (300 :> Chars("Multiple Choices")) @@ (400 :> Chars("Bad Request")) @@
    (404 :> Chars("Not Found")) @@ (409 :> Chars("Conflict")) @@
    (412 :> Chars("Precondition Failed")) @@ (500 :> Chars("Internal Server Error")) @@
    (501 :> Chars("Not Implemented")) @@ (504 :> Chars("Gateway Timeout"))

\* an endpoint class as registered by the connector code: the properties
\* _processEndpoint reads from an instance, and init.length
\* an array-valued property that may be left undefined
None == [defined |-> FALSE, list |-> <<>>]
Some(list) == [defined |-> TRUE, list |-> list]
InList(x, list) == \E i \in 1..Len(list) : list[i] = x

EndpointClass(arity, methods, types, bookmarklet) ==
    [kind |-> "endpoint", arity |-> arity, supportedMethods |-> methods,
     supportedDataTypes |-> types, permitBookmarklet |-> bookmarklet]

\* the registered endpoints, fixed before the listener starts
Registered ==
    (Chars("/1") :> EndpointClass(1, None, None, FALSE)) @@
    (Chars("/2") :> EndpointClass(2, None, None, FALSE)) @@
    (Chars("/3") :> EndpointClass(3, None, None, FALSE)) @@
    (Chars("/p") :> EndpointClass(2, Some(<<Chars("POST")>>),
                                  Some(<<Chars("application/json")>>), FALSE)) @@
    (Chars("/g") :> EndpointClass(1, Some(<<Chars("GET")>>), None, FALSE)) @@
    (Chars("/b") :> EndpointClass(1, None, None, TRUE))

\* Zotero.Server.Endpoints = {} is a plain object: a lookup that misses the
\* registered keys falls through to Object.prototype.  "constructor" is Object
\* itself, the other members are functions that cannot be constructed.
ObjectPrototype ==
    (Chars("constructor") :> [kind |-> "Object"]) @@
    (Chars("toString") :> [kind |-> "builtin"]) @@
    (Chars("valueOf") :> [kind |-> "builtin"])

\* Zotero.Server.Endpoints[path]
Endpoints(path) ==
    IF path \in DOMAIN Registered THEN Registered[path]
    ELSE IF path \in DOMAIN ObjectPrototype THEN ObjectPrototype[path]
    ELSE [kind |-> "undefined"]

\* ZOTERO_CONFIG.BOOKMARKLET_ORIGIN, ZOTERO_CONFIG.HTTP_BOOKMARKLET_ORIGIN
BOOKMARKLET_ORIGIN == Chars("https://www.zotero.org")
HTTP_BOOKMARKLET_ORIGIN == Chars("http://www.zotero.org")
\* Zotero.version, CONNECTOR_API_VERSION
ZoteroVersion == Chars("5.0")
CONNECTOR_API_VERSION == Chars("2")

(***************************************************************************)
(* The DataListener                                                        *)
(***************************************************************************)
\* new Zotero.Server.DataListener(iStream, oStream), with the two streams it owns:
\* how often close() was called on each, what was written to oStream
DataListener ==
    [header |-> <<>>, headerFinished |-> FALSE, body |-> <<>>, bodyLength |-> 0,
     origin |-> Undefined, contentType |-> Undefined, pathname |-> Undefined,
     endpoint |-> [kind |-> "undefined"], query |-> Undefined, responseSent |-> FALSE,
     iCloses |-> 0, oCloses |-> 0, written |-> <<>>, failedWrites |-> 0,
     headerRuns |-> 0, calls |-> <<>>]

\* a value is truthy as a JavaScript condition
Truthy(v) == v # Undefined /\ v # Null /\ v # <<>>

\* the CORS fields echoing whatever origin the request named
CorsForAnyOrigin(c) ==
    IF Truthy(c.origin)
    THEN Chars("Access-Control-Allow-Origin: ") \o c.origin \o CRLF
         \o Chars("Access-Control-Allow-Methods: POST, GET, OPTIONS") \o CRLF
         \o Chars("Access-Control-Allow-Headers: Content-Type,X-Zotero-Connector-API-Version,X-Zotero-Version") \o CRLF
    ELSE <<>>

\* lines 339-344: the CORS fields for the bookmarklet's origins
Cors(c) ==
    IF c.origin = BOOKMARKLET_ORIGIN \/ c.origin = HTTP_BOOKMARKLET_ORIGIN
    THEN Chars("Access-Control-Allow-Origin: ") \o c.origin \o CRLF
         \o Chars("Access-Control-Allow-Methods: POST, GET, OPTIONS") \o CRLF
         \o Chars("Access-Control-Allow-Headers: Content-Type,X-Zotero-Connector-API-Version,X-Zotero-Version") \o CRLF
    ELSE <<>>

\* the end of a response that always declares an empty body
EntityWithLength(body) ==
    Chars("Content-Length: 0") \o CRLF \o CRLF \o (IF Truthy(body) THEN body ELSE <<>>)

\* lines 351-355: the blank line and the body, or Content-Length: 0
Entity(body) ==
    IF Truthy(body) THEN CRLF \o body ELSE Chars("Content-Length: 0") \o CRLF \o CRLF

\* _generateResponse(status, contentType, body) of the listener c
_generateResponse(c, status, contentType, body) ==
    Chars("HTTP/1.0 ") \o NumStr(status) \o <<SP>>
    \o (IF status \in DOMAIN responseCodes THEN responseCodes[status] ELSE Chars("undefined"))
    \o CRLF
    \o (IF ~isServer
        THEN Chars("X-Zotero-Version: ") \o ZoteroVersion \o CRLF
             \o Chars("X-Zotero-Connector-API-Version: ") \o CONNECTOR_API_VERSION \o CRLF
             \o Cors(c)
        ELSE <<>>)
    \o (IF Truthy(contentType) THEN Chars("Content-Type: ") \o contentType \o CRLF ELSE <<>>)
    \o Entity(body)

\* writing to oStream throws once oStream was closed
WriteThrows(c) == ~c.responseSent /\ c.oCloses > 0

\* _requestFinished without its responseSent guard
RequestFinishedUnguarded(c, response) ==
    [c EXCEPT !.responseSent = TRUE, !.iCloses = @ + 1,
              !.written = IF c.oCloses > 0 THEN @ ELSE Append(@, response),
              !.failedWrites = IF c.oCloses > 0 THEN @ + 1 ELSE @,
              !.oCloses = @ + 1]

\* _requestFinished(response): the listener afterwards.  The write goes through
\* a converter stream whose close() in the finally block closes oStream.
_requestFinished(c, response) ==
    IF c.responseSent THEN c
    ELSE [c EXCEPT !.responseSent = TRUE,
                   !.iCloses = @ + 1,
                   !.written = IF c.oCloses > 0 THEN @ ELSE Append(@, response),
                   !.failedWrites = IF c.oCloses > 0 THEN @ + 1 ELSE @,
                   !.oCloses = @ + 1]

(***************************************************************************)
(* Body decoding                                                           *)
(***************************************************************************)
\* the outcome of a call that may throw: a value, or an exception
Ok(v) == [ok |-> TRUE, v |-> v]
Throw == [ok |-> FALSE, v |-> <<>>]

\* a JavaScript object used as a map, keys in any order
EmptyMap == [x \in {} |-> <<>>]
MapSet(m, k, v) == [x \in (DOMAIN m) \cup {k} |-> IF x = k THEN v ELSE m[x]]

\* Bytes above 0x7F are written as two-character strings ("C3", "A9"), and the
\* one non-ASCII character they encode as "U+E9".
\* nsIConverterInputStream over the bytes, charset UTF-8, replacement "?"
\* The bytes lo..hi are decoded by halves, which keeps the evaluation shallow: a
\* lead byte C3 with its continuation A9 is one character, the continuation
\* itself yields nothing more, and a lead or a continuation alone is replaced.
RECURSIVE Utf8Range(_, _, _)
Utf8Range(bytes, lo, hi) ==
    IF lo > hi THEN <<>>
    ELSE IF lo < hi
         THEN Utf8Range(bytes, lo, (lo + hi) \div 2) \o Utf8Range(bytes, (lo + hi) \div 2 + 1, hi)
    ELSE IF bytes[lo] = "C3"
         THEN IF lo < Len(bytes) /\ bytes[lo + 1] = "A9" THEN <<"U+E9">> ELSE <<"?">>
    ELSE IF bytes[lo] = "A9"
         THEN IF lo > 1 /\ bytes[lo - 1] = "C3" THEN <<>> ELSE <<"?">>
    ELSE <<bytes[lo]>>

Utf8Decode(bytes) == Utf8Range(bytes, 1, Len(bytes))

\* String.prototype.split(sep) for a non-empty separator string
RECURSIVE Split(_, _)
Split(s, sep) ==
    LET i == IndexOf(s, sep)
    IN  IF i = -1 THEN <<s>>
        ELSE <<SubSeq(s, 1, i)>> \o Split(SubstrFrom(s, i + Len(sep)), sep)

\* the characters 0x20..0x7E in code order (the grave accent 0x60 as "U+60")
Ascii ==
    Chars(" !\"#$%&'()*+,-./0123456789:;<=>?@ABCDEFGHIJKLMNOPQRSTUVWXYZ[\\]^_")
    \o <<"U+60">> \o Chars("abcdefghijklmnopqrstuvwxyz{|}~")
HexDigits == Chars("0123456789abcdef")
IsHexDigit(ch) == \E i \in 1..16 : HexDigits[i] = ToLower(ch)
HexVal(ch) == (CHOOSE i \in 1..16 : HexDigits[i] = ToLower(ch)) - 1

\* decodeURIComponent: a %XX escape of an ASCII character is decoded; a malformed
\* escape, or an escaped byte that is not a character by itself, throws URIError
RECURSIVE decodeURIComponent(_)
decodeURIComponent(s) ==
    IF s = <<>> THEN Ok(<<>>)
    ELSE IF s[1] # "%"
         THEN LET r == decodeURIComponent(Tail(s))
              IN  IF r.ok THEN Ok(<<s[1]>> \o r.v) ELSE Throw
    ELSE IF Len(s) < 3 \/ ~IsHexDigit(s[2]) \/ ~IsHexDigit(s[3]) THEN Throw
    ELSE LET code == 16 * HexVal(s[2]) + HexVal(s[3])
             r == decodeURIComponent(SubSeq(s, 4, Len(s)))
         IN  IF code > 126 \/ (code < 32 /\ code \notin {9, 10, 13}) \/ ~r.ok THEN Throw
             ELSE Ok(<<IF code = 9 THEN "\t" ELSE IF code = 10 THEN LF
                       ELSE IF code = 13 THEN CR ELSE Ascii[code - 31]>> \o r.v)

\* the loop of decodeQueryString over splitData
RECURSIVE DecodeVariables(_)
DecodeVariables(splitData) ==
    IF splitData = <<>> THEN Ok(EmptyMap)
    ELSE LET variable == splitData[Len(splitData)]
             splitIndex == IndexOf(variable, <<"=">>)
             \* substr(0, -1) is the empty string
             k == decodeURIComponent(IF splitIndex = -1 THEN <<>>
                                     ELSE Substr(variable, 0, splitIndex))
             v == decodeURIComponent(SubstrFrom(variable, splitIndex + 1))
             before == DecodeVariables(SubSeq(splitData, 1, Len(splitData) - 1))
         IN  IF before.ok /\ k.ok /\ v.ok THEN Ok(MapSet(before.v, k.v, v.v)) ELSE Throw

\* Zotero.Server.decodeQueryString(queryString)
decodeQueryString(queryString) == DecodeVariables(Split(queryString, <<"&">>))

\* /^Content-Disposition:\s*(.*)$/i on a field's header block -> group 1; without
\* the m flag the match spans the whole block, and . stops at a line break
contentDispositionRe(s) ==
    LET name == Chars("Content-Disposition:")
        j == RunEnd(s, Len(name) + 1, White)
    IN  IF MatchCI(s, 1, name) /\ RunEnd(s, j, NotCrLf) = Len(s) + 1
        THEN SubSeq(s, j, Len(s)) ELSE Null

\* the loop over contentDisposition[1].split(';'): the result of
\* nameVal.split('=') is dropped, so nameVal[0] and nameVal[1] are characters
RECURSIVE DispositionAttributes(_)
DispositionAttributes(nameVals) ==
    IF nameVals = <<>> THEN EmptyMap
    ELSE LET nameVal == nameVals[Len(nameVals)]
         IN  MapSet(DispositionAttributes(SubSeq(nameVals, 1, Len(nameVals) - 1)),
                    IF Len(nameVal) > 0 THEN <<nameVal[1]>> ELSE Chars("undefined"),
                    IF Len(nameVal) > 1 THEN <<nameVal[2]>> ELSE Null)

\* one iteration of the loop of _decodeMultipartData
DecodeField(rawField) ==
    LET field == Trim(rawField)
        unixHeaderBoundary == IndexOf(field, <<LF, LF>>)
        windowsHeaderBoundary == IndexOf(field, <<CR, LF, CR, LF>>)
        Field(h, b) ==
            LET contentDisposition == contentDispositionRe(h)
            IN  Ok([header |-> h, body |-> b,
                    attributes |-> IF contentDisposition # Null
                                   THEN DispositionAttributes(Split(contentDisposition, <<";">>))
                                   ELSE EmptyMap])
    IN  IF unixHeaderBoundary < windowsHeaderBoundary /\ unixHeaderBoundary # -1
        THEN Field(SubSeq(field, 1, unixHeaderBoundary),
                   SubstrFrom(field, unixHeaderBoundary + 2))
        ELSE IF windowsHeaderBoundary # -1
        THEN Field(SubSeq(field, 1, windowsHeaderBoundary),
                   SubstrFrom(field, windowsHeaderBoundary + 4))
        ELSE Throw

RECURSIVE DecodeFields(_)
DecodeFields(fields) ==
    IF fields = <<>> THEN Ok(<<>>)
    ELSE LET before == DecodeFields(SubSeq(fields, 1, Len(fields) - 1))
             last == DecodeField(fields[Len(fields)])
         IN  IF before.ok /\ last.ok THEN Ok(Append(before.v, last.v)) ELSE Throw

\* _decodeMultipartData(data, boundary)
_decodeMultipartData(data, boundary) ==
    LET pieces == Split(data, boundary)
    IN  DecodeFields(SubSeq(pieces, 2, Len(pieces) - 1))

\* /boundary=([^\s]*)/i on the header -> group 1
boundaryRe(s) ==
    LET name == Chars("boundary=")
        hits == {i \in 1..Len(s) : MatchCI(s, i, name)}
    IN  IF hits = {} THEN Null
        ELSE LET j == Min(hits) + Len(name)
             IN  SubSeq(s, j, RunEnd(s, j, NotWhite) - 1)

(***************************************************************************)
(* JSON.parse on the grammar of objects, arrays, strings without escapes,  *)
(* integers and the three literals; any other text throws SyntaxError.     *)
(* A parser returns [ok, v, pos]: the value and the position after it.     *)
(***************************************************************************)
JsonFail == [ok |-> FALSE, v |-> <<>>, pos |-> 0]
JsonOk(v, pos) == [ok |-> TRUE, v |-> v, pos |-> pos]
JsonAt(s, i, ch) == i <= Len(s) /\ s[i] = ch
JsonWs(s, i) == RunEnd(s, i, White)

JsonString(s, i) ==
    LET e == RunEnd(s, i + 1, NotClass({"\"", "\\", CR, LF, "\t"}))
    IN  IF JsonAt(s, i, "\"") /\ JsonAt(s, e, "\"")
        THEN JsonOk(SubSeq(s, i + 1, e - 1), e + 1) ELSE JsonFail

JsonNumber(s, i) ==
    LET d == IF JsonAt(s, i, "-") THEN i + 1 ELSE i
        e == RunEnd(s, d, Digit)
    IN  IF e > d /\ (e = d + 1 \/ s[d] # "0")
        THEN JsonOk([t |-> "number",
                     v |-> IF d > i THEN 0 - ParseInt(SubSeq(s, d, e - 1))
                           ELSE ParseInt(SubSeq(s, d, e - 1))], e)
        ELSE JsonFail

JsonLiteral(s, i) ==
    LET Is(w) == SubSeq(s, i, i + Len(w) - 1) = w
    IN  IF Is(Chars("true")) THEN JsonOk([t |-> "literal", v |-> "true"], i + 4)
        ELSE IF Is(Chars("false")) THEN JsonOk([t |-> "literal", v |-> "false"], i + 5)
        ELSE IF Is(Chars("null")) THEN JsonOk([t |-> "literal", v |-> "null"], i + 4)
        ELSE JsonFail

RECURSIVE JsonValue(_, _), JsonElements(_, _, _), JsonMembers(_, _, _)
JsonValue(s, i0) ==
    LET i == JsonWs(s, i0)
        j == JsonWs(s, i + 1)
    IN  IF i > Len(s) THEN JsonFail
        ELSE IF s[i] = "{"
             THEN IF JsonAt(s, j, "}") THEN JsonOk([t |-> "object", v |-> EmptyMap], j + 1)
                  ELSE JsonMembers(s, j, EmptyMap)
        ELSE IF s[i] = "["
             THEN IF JsonAt(s, j, "]") THEN JsonOk([t |-> "array", v |-> <<>>], j + 1)
                  ELSE JsonElements(s, j, <<>>)
        ELSE IF s[i] = "\""
             THEN LET r == JsonString(s, i)
                  IN  IF r.ok THEN JsonOk([t |-> "string", v |-> r.v], r.pos) ELSE JsonFail
        ELSE IF s[i] = "-" \/ IsDigit(s[i]) THEN JsonNumber(s, i)
        ELSE JsonLiteral(s, i)

\* the elements of an array from position i on, up to and including its ']'
JsonElements(s, i, acc) ==
    LET r == JsonValue(s, i)
        j == JsonWs(s, r.pos)
    IN  IF ~r.ok THEN JsonFail
        ELSE IF JsonAt(s, j, "]") THEN JsonOk([t |-> "array", v |-> Append(acc, r.v)], j + 1)
        ELSE IF JsonAt(s, j, ",") THEN JsonElements(s, j + 1, Append(acc, r.v))
        ELSE JsonFail

\* the members of an object from position i on, up to and including its '}'
JsonMembers(s, i, acc) ==
    LET k == JsonString(s, JsonWs(s, i))
        c == JsonWs(s, k.pos)
        r == JsonValue(s, c + 1)
        j == JsonWs(s, r.pos)
    IN  IF ~k.ok \/ ~JsonAt(s, c, ":") \/ ~r.ok THEN JsonFail
        ELSE IF JsonAt(s, j, "}")
             THEN JsonOk([t |-> "object", v |-> MapSet(acc, k.v, r.v)], j + 1)
        ELSE IF JsonAt(s, j, ",") THEN JsonMembers(s, j + 1, MapSet(acc, k.v, r.v))
        ELSE JsonFail

\* JSON.parse(text)
JSONparse(text) ==
    LET r == JsonValue(text, 1)
    IN  IF r.ok /\ JsonWs(text, r.pos) = Len(text) + 1 THEN Ok(r.v) ELSE Throw

(***************************************************************************)
(* _processEndpoint                                                        *)
(***************************************************************************)
GET == Chars("GET")
POST == Chars("POST")
TextPlain == Chars("text/plain")

\* the decoded body handed to a handler, tagged with the branch that made it
Data(t, v) == [t |-> t, v |-> v]
NoData == Data("null", <<>>)

\* the loop of _processEndpoint over headerLines
RECURSIVE HeaderLines(_)
HeaderLines(headerLines) ==
    IF headerLines = <<>> THEN EmptyMap
    ELSE LET line == Trim(headerLines[Len(headerLines)])
             pos == IndexOf(line, <<":">>)
         IN  IF pos = -1 THEN HeaderLines(SubSeq(headerLines, 1, Len(headerLines) - 1))
             ELSE MapSet(HeaderLines(SubSeq(headerLines, 1, Len(headerLines) - 1)),
                         Substr(line, 0, pos), Trim(SubstrFrom(line, pos + 1)))

\* the headers object built for a single-parameter endpoint
Headers(header) == HeaderLines(Split(Trim(header), CRLF))

\* this.query ? Zotero.Server.decodeQueryString(this.query.substr(1)) : {}
Query(c) == IF Truthy(c.query) THEN decodeQueryString(SubstrFrom(c.query, 1)) ELSE Ok(EmptyMap)

\* what a handler's init returns as a status, or passes to sendResponseCallback
Result(code, contentType, arg) == [code |-> code, contentType |-> contentType, arg |-> arg]

\* one call of _processEndpoint, as the handler and the caller of the returned
\* promise see it
Call(id, method, postData) ==
    [id |-> id, method |-> method, postData |-> postData, instantiated |-> FALSE,
     invoked |-> FALSE, arity |-> 0, args |-> <<>>, awaiting |-> FALSE, responds |-> 0,
     answers |-> <<>>, state |-> "pending"]

\* the call runs to its next suspension, returns or throws: the state of its promise
Settle(c, call, state) ==
    IF call.id <= Len(c.calls) THEN [c EXCEPT !.calls[call.id] = [call EXCEPT !.state = state]]
    ELSE [c EXCEPT !.calls = Append(@, [call EXCEPT !.state = state])]

\* the catch block of _processEndpoint
Catch(c, call) ==
    Settle(_requestFinished(c, _generateResponse(c, 500, Undefined, Undefined)), call, "rejected")

\* this._requestFinished(this._generateResponse(...)) inside the try block, then return.
\* When the write throws, the catch block finds the response marked as sent, so its
\* own _requestFinished does nothing, and the error is thrown on.
Reply(c, call, status, contentType, body) ==
    Settle(_requestFinished(c, _generateResponse(c, status, contentType, body)), call,
           IF WriteThrows(c) THEN "rejected" ELSE "fulfilled")

\* sendResponseCallback(code, contentType, arg) called from inside the try block
Respond(c, call, result) ==
    Reply(c, [call EXCEPT !.responds = @ + 1, !.answers = Append(@, result)],
          result.code, result.contentType, result.arg)

\* the outcome of the body decoding of lines 385-420: a 400 reply with this body,
\* or the decoded data (of type "thrown" when decoding threw)
BadData(body) == [reply |-> TRUE, body |-> Chars(body), data |-> NoData]
GoodData(data) == [reply |-> FALSE, body |-> <<>>, data |-> data]

\* lines 397-403
DecodeJson(json) ==
    IF json.ok THEN GoodData(Data("json", json.v)) ELSE BadData("Invalid JSON provided\n")

\* lines 404-405
DecodeForm(form) ==
    IF form.ok THEN GoodData(Data("form", form.v)) ELSE GoodData(Data("thrown", <<>>))

\* lines 406-416
DecodeMultipart(postData, boundary) ==
    IF boundary = Null THEN BadData("Invalid multipart/form-data provided\n")
    ELSE IF _decodeMultipartData(postData, Chars("--") \o boundary).ok
    THEN GoodData(Data("multipart", _decodeMultipartData(postData, Chars("--") \o boundary).v))
    ELSE BadData("Invalid multipart/form-data provided\n")

\* lines 385-420
Decode(c, supportedDataTypes, postData) ==
    IF ~(Truthy(postData) /\ Truthy(c.contentType)) THEN GoodData(NoData)
    ELSE IF /\ supportedDataTypes.defined
            /\ supportedDataTypes.list # <<Chars("*")>>
            /\ ~InList(c.contentType, supportedDataTypes.list)
         THEN BadData("Endpoint does not support content-type\n")
    ELSE IF c.contentType = Chars("application/json") THEN DecodeJson(JSONparse(postData))
    ELSE IF c.contentType = Chars("application/x-www-form-urlencoded")
         THEN DecodeForm(decodeQueryString(postData))
    ELSE IF c.contentType = Chars("multipart/form-data")
         THEN DecodeMultipart(postData, boundaryRe(c.header))
    ELSE GoodData(Data("raw", postData))

\* new this.endpoint, for a class that can be constructed: an instance of the
\* endpoint class, or of Object
Instance(class) ==
    IF class.kind = "endpoint" THEN class
    ELSE [kind |-> "Object", arity |-> -1, supportedMethods |-> None,
          supportedDataTypes |-> None, permitBookmarklet |-> FALSE]

\* what lines 365-420 come to
Verdict(branch, instantiated, status, body, data) ==
    [branch |-> branch, instantiated |-> instantiated, status |-> status, body |-> body,
     data |-> data]

\* an endpoint that supports every method
AnyMethodSupported(endpoint, method) == TRUE

\* the condition of line 368, negated
MethodSupported(endpoint, method) ==
    ~(endpoint.supportedMethods.defined /\ ~InList(method, endpoint.supportedMethods.list))

\* the bookmarklet check without its test of permitBookmarklet
ForbiddenToBookmarkletAlways(origin, endpoint) ==
    /\ Truthy(origin)
    /\ origin = Chars("https://www.zotero.org") \/ origin = Chars("http://www.zotero.org")

\* lines 374-379: the request comes from the bookmarklet and the endpoint has
\* not set permitBookmarklet
ForbiddenToBookmarklet(origin, endpoint) ==
    /\ Truthy(origin)
    /\ origin = Chars("https://www.zotero.org") \/ origin = Chars("http://www.zotero.org")
    /\ ~endpoint.permitBookmarklet

\* lines 365-420, given the instance and the decoded body
PolicyOf(c, method, how, endpoint, decoded) ==
    IF c.endpoint.kind \in {"undefined", "builtin"} \/ (c.endpoint.kind = "endpoint" /\ how = "throwNew")
    THEN Verdict("throw", FALSE, 500, <<>>, NoData)
    ELSE IF ~MethodSupported(endpoint, method)
    THEN Verdict("reply", endpoint.kind = "endpoint", 400,
                 Chars("Endpoint does not support method\n"), NoData)
    ELSE IF ForbiddenToBookmarklet(c.origin, endpoint)
    THEN Verdict("reply", endpoint.kind = "endpoint", 403,
                 Chars("Access forbidden to bookmarklet\n"), NoData)
    ELSE IF decoded.reply THEN Verdict("reply", endpoint.kind = "endpoint", 400, decoded.body, NoData)
    \* decoding threw, or endpoint.init.length on an object without init
    ELSE IF decoded.data.t = "thrown" \/ endpoint.kind = "Object"
    THEN Verdict("throw", endpoint.kind = "endpoint", 500, <<>>, NoData)
    ELSE Verdict("invoke", TRUE, 0, <<>>, decoded.data)

Policy(c, method, postData, how) ==
    PolicyOf(c, method, how, Instance(c.endpoint),
             Decode(c, Instance(c.endpoint).supportedDataTypes, postData))

\* every init called as a three-parameter one
InitArgsOfUrl(c, method, decodedData) ==
    [pathname |-> c.pathname, query |-> Query(c).v, userAgent |-> uaRe(c.header),
     data |-> decodedData]

\* the arguments of init under the convention its arity selects (lines 434-485)
InitArgs(c, method, decodedData) ==
    IF c.endpoint.arity \in {0, 1}
    THEN [method |-> method, pathname |-> c.pathname, query |-> Query(c).v,
          headers |-> Headers(c.header), data |-> decodedData]
    ELSE IF c.endpoint.arity = 2 THEN [data |-> decodedData]
    ELSE [pathname |-> c.pathname, query |-> Query(c).v, userAgent |-> uaRe(c.header),
          data |-> decodedData]

\* init is called.  how says what the handler's code does with the call (throw,
\* answer before it returns, answer later, answer and then throw), result what
\* it answers.  A single-parameter handler answers by what it returns.
Handle(c, call, how, result) ==
    IF how = "throw" \/ (how = "respondThenThrow" /\ call.arity <= 1) THEN Catch(c, call)
    ELSE IF how = "async"
         THEN Settle(c, [call EXCEPT !.awaiting = call.arity <= 1],
                     IF call.arity <= 1 THEN "pending" ELSE "fulfilled")
    ELSE IF how = "respondThenThrow"
         THEN Catch(_requestFinished(c, _generateResponse(c, result.code, result.contentType,
                                                          result.arg)),
                    [call EXCEPT !.responds = @ + 1, !.answers = Append(@, result)])
    ELSE Respond(c, call, result)

\* lines 422-485
Invoke(c, call, decodedData, how, result) ==
    IF c.endpoint.arity # 2 /\ ~Query(c).ok THEN Catch(c, call)
    ELSE Handle(c, [call EXCEPT !.invoked = TRUE, !.arity = c.endpoint.arity,
                                !.args = InitArgs(c, call.method, decodedData)],
                how, result)

\* _processEndpoint from the verdict of lines 365-420 on
Dispatch(c, call, verdict, how, result) ==
    IF verdict.branch = "throw" THEN Catch(c, call)
    ELSE IF verdict.branch = "reply"
         THEN Reply(c, call, verdict.status, TextPlain, verdict.body)
    ELSE Invoke(c, call, verdict.data, how, result)

\* _processEndpoint, given what lines 365-420 come to
Process(c, method, postData, verdict, how, result) ==
    Dispatch(c, [Call(Len(c.calls) + 1, method, postData)
                    EXCEPT !.instantiated = verdict.instantiated],
             verdict, how, result)

\* _processEndpoint(method, postData) up to its first suspension
_processEndpoint(c, method, postData, how, result) ==
    Process(c, method, postData, Policy(c, method, postData, how), how, result)

(***************************************************************************)
(* The connection handler                                                  *)
(***************************************************************************)
\* _bodyData(), given the accumulated body decoded up to bodyLength
BodyComplete(c, body, how, result) ==
    _processEndpoint([c EXCEPT !.body = body], POST, body, how, result)

\* _bodyData()
_bodyData(c, how, result) ==
    IF Len(c.body) >= c.bodyLength
    THEN BodyComplete(c, Utf8Decode(SubSeq(c.body, 1, c.bodyLength)), how, result)
    ELSE c

\* lines 245-254: this.origin after them
ParseOrigin(c) ==
    IF isServer THEN c.origin
    ELSE IF originRe(c.header) # Null THEN originRe(c.header)
    ELSE IF bookmarkletRe(c.header) # Null THEN Chars("https://www.zotero.org")
    ELSE c.origin

\* lines 266-270: this.contentType after them
ParseContentType(c) ==
    IF contentTypeRe(c.header) # Null THEN SplitContentType(contentTypeRe(c.header))
    ELSE c.contentType

\* the method branch without its final else: any other method is served as a GET
MethodBranchWithoutElse(method) ==
    IF method = Chars("HEAD") \/ method = Chars("OPTIONS") THEN "empty 200"
    ELSE IF method = Chars("POST") THEN "POST"
    ELSE "GET"

\* the method branch with HEAD left out of its first condition
MethodBranchWithoutHead(method) ==
    IF method = Chars("OPTIONS") THEN "empty 200"
    ELSE IF method = Chars("GET") \/ method = Chars("HEAD") THEN "GET"
    ELSE IF method = Chars("POST") THEN "POST"
    ELSE "not implemented"

\* the branch of _headerFinished that a request method takes (lines 284-303)
MethodBranch(method) ==
    IF method = Chars("HEAD") \/ method = Chars("OPTIONS") THEN "empty 200"
    ELSE IF method = GET THEN "GET"
    ELSE IF method = POST THEN "POST"
    ELSE "not implemented"

\* what _headerFinished comes to: how far it got (the Host check, the request
\* line, the endpoint lookup, the method), and the response it writes there
Finish(reached, status, contentType, body) ==
    [reached |-> reached, branch |-> "finish", status |-> status,
     contentType |-> contentType, body |-> body, bodyLength |-> 0]
Proceed(branch, bodyLength) ==
    [reached |-> "method", branch |-> branch, status |-> 0, contentType |-> Undefined,
     body |-> <<>>, bodyLength |-> bodyLength]

\* lines 288-299
PostBranch(contentLength) ==
    IF contentLength = Null
    THEN Finish("method", 400, TextPlain, Chars("Content-length not provided\n"))
    ELSE Proceed("POST", ParseInt(contentLength))

\* lines 256-303, given the match of methodRe
HeaderVerdictOf(header, method) ==
    IF ~isServer /\ ~hostRe(header)
    THEN Finish("host", 400, TextPlain, Chars("Invalid Host header\n"))
    ELSE IF ~method.matched
    THEN Finish("line", 400, TextPlain, Chars("Invalid method specified\n"))
    ELSE IF Endpoints(method.path).kind = "undefined"
    THEN Finish("lookup", 404, TextPlain, Chars("No endpoint found\n"))
    ELSE IF MethodBranch(method.method) = "empty 200"
    THEN Finish("method", 200, Undefined, Undefined)
    ELSE IF MethodBranch(method.method) = "GET" THEN Proceed("GET", 0)
    ELSE IF MethodBranch(method.method) = "POST" THEN PostBranch(contentLengthRe(header))
    ELSE Finish("method", 501, TextPlain, Chars("Method not implemented\n"))

HeaderVerdict(header) == HeaderVerdictOf(header, methodRe(header))

\* the fields _headerFinished has set when it got as far as the verdict says
HeaderFields(c, method, verdict) ==
    [c EXCEPT !.headerFinished = TRUE,
              !.headerRuns = @ + 1,
              !.origin = ParseOrigin(c),
              !.contentType = IF verdict.reached = "host" THEN @ ELSE ParseContentType(c),
              !.pathname = IF verdict.reached = "method" THEN method.path ELSE @,
              !.endpoint = IF verdict.reached = "method" THEN Endpoints(method.path) ELSE @,
              !.query = IF verdict.reached = "method" THEN method.query ELSE @,
              !.bodyLength = IF verdict.branch = "POST" THEN verdict.bodyLength ELSE @]

\* the last statement _headerFinished executes
HeaderAct(c, verdict, how, result) ==
    IF verdict.branch = "finish"
    THEN _requestFinished(c, _generateResponse(c, verdict.status, verdict.contentType,
                                               verdict.body))
    ELSE IF verdict.branch = "GET" THEN _processEndpoint(c, GET, Null, how, result)
    ELSE _bodyData(c, how, result)

\* _headerFinished(), given the match of methodRe and what lines 256-303 come to
HeaderRun(c, method, verdict, how, result) ==
    HeaderAct(HeaderFields(c, method, verdict), verdict, how, result)

\* _headerFinished(), given the match of methodRe
HeaderMatch(c, method, how, result) ==
    HeaderRun(c, method, HeaderVerdictOf(c.header, method), how, result)

\* _headerFinished()
_headerFinished(c, how, result) == HeaderMatch(c, methodRe(c.header), how, result)

\* the header scan of onDataAvailable (lines 196-229): how many bytes of readData
\* end the header, -1 when readData does not end it, 0 when the header ends
\* without them and readData is dropped
HeaderEnd(header, readData) ==
    IF IndexOf(readData, <<CR, LF, CR, LF>>) # -1
    THEN (IF IndexOf(readData, <<CR, LF, CR, LF>>) # 0
          THEN IndexOf(readData, <<CR, LF, CR, LF>>) + 4 ELSE 0)
    ELSE IF IndexOf(readData, <<LF, LF>>) # -1
    THEN (IF IndexOf(readData, <<LF, LF>>) # 0 THEN IndexOf(readData, <<LF, LF>>) + 2 ELSE 0)
    ELSE IF /\ header # <<>>
            /\ header[Len(header)] = LF
            /\ readData[1] = LF \/ readData[1] = CR
    THEN (IF Len(readData) > 1 /\ readData[2] = LF THEN 2 ELSE 1)
    ELSE -1

\* onDataAvailable() while reading the header, given the result of the scan
ReadHeader(c, readData, end, how, result) ==
    IF end = -1 THEN [c EXCEPT !.header = @ \o readData]
    ELSE IF end = 0 THEN _headerFinished(c, how, result)
    ELSE _headerFinished([c EXCEPT !.header = @ \o Substr(readData, 0, end),
                                   !.body = SubstrFrom(readData, end)], how, result)

\* onDataAvailable(): readData is what this.sStream.read(count) returned
onDataAvailable(c, readData, how, result) ==
    IF c.headerFinished THEN _bodyData([c EXCEPT !.body = @ \o readData], how, result)
    ELSE ReadHeader(c, readData, HeaderEnd(c.header, readData), how, result)

\* onStopRequest()
onStopRequest(c) == [c EXCEPT !.iCloses = @ + 1, !.oCloses = @ + 1]

(***************************************************************************)
(* Clients and endpoint handlers                                           *)
(***************************************************************************)
\* how often one handler instance may call the callback it was given
MaxResponds == 2
\* how many bytes a client may send after the end of its request
MaxExtra == 1
\* how many calls of _processEndpoint one connection is followed through
MaxCalls == 2

NoHost == <<"no Host line">>

\* a request as the client means it
Request(method, path, query, host, contentLength, newline, body, extra) ==
    [method |-> method, path |-> path, query |-> query, host |-> host, fields |-> <<>>,
     contentLength |-> contentLength, newline |-> newline, body |-> body, extra |-> extra]

\* the same request with these header lines after its Host line
WithFields(r, fields) == [r EXCEPT !.fields = fields]

\* header lines, each with its line ending
RECURSIVE Lines(_, _)
Lines(fields, newline) ==
    IF fields = <<>> THEN <<>>
    ELSE fields[1] \o newline \o Lines(SubSeq(fields, 2, Len(fields)), newline)

\* the bytes the client sends for it
Bytes(r) ==
    r.method \o <<SP>> \o r.path \o r.query \o Chars(" HTTP/1.0") \o r.newline
    \o (IF r.host = NoHost THEN <<>> ELSE Chars("Host: ") \o r.host \o r.newline)
    \o Lines(r.fields, r.newline)
    \o (CASE r.contentLength = "none" -> <<>>
          [] r.contentLength = "space" ->
                Chars("Content-Length: ") \o NumStr(Len(r.body)) \o r.newline
          [] r.contentLength = "nospace" ->
                Chars("Content-Length:") \o NumStr(Len(r.body)) \o r.newline
          [] r.contentLength = "nan" -> Chars("Content-Length: x") \o r.newline)
    \o r.newline \o r.body \o r.extra

HEAD == Chars("HEAD")
OPTIONS == Chars("OPTIONS")
PUT == Chars("PUT")
DELETE == Chars("DELETE")
Localhost == Chars("localhost")
\* the values of Host that name this machine, and some that do not
GoodHosts == {Localhost, Chars("127.0.0.1:80")}
BadHosts == {NoHost, Chars("localhost.e")}
\* a run of n bytes after the end of a request
Trailing(n) == [i \in 1..n |-> "z"]
\* bytes after the end of a request that read as a header line
Smuggled == Chars("Host: localhost") \o <<LF, LF>>

\* a request without a body, and a POST that declares its body's length
Bodyless(method, path, query, host, newline, extra) ==
    Request(method, path, query, host, "none", newline, <<>>, extra)
Post(path, host, contentLength, newline, body, extra) ==
    Request(POST, path, <<>>, host, contentLength, newline, body, extra)

\* the requests the clients of this model send
Requests ==
    \* well-formed GET and POST requests, either line ending, with bytes after them
    {Bodyless(GET, Chars("/1"), q, Localhost, nl, Trailing(n)) :
        q \in {<<>>, Chars("?a=1")}, nl \in {CRLF, <<LF>>}, n \in 0..MaxExtra}
    \cup {Post(Chars("/1"), Localhost, "space", nl, b, Trailing(n)) :
        nl \in {CRLF, <<LF>>}, b \in {Chars("ab"), <<"C3", "A9">>}, n \in 0..MaxExtra}
    \* every method on registered and unregistered paths
    \cup {Bodyless(m, p, <<>>, Localhost, CRLF, <<>>) :
        m \in {GET, HEAD, OPTIONS, PUT, DELETE, Chars("get")},
        p \in {Chars("/1"), Chars("/x"), Chars("/p")}}
    \cup {Post(p, Localhost, "space", CRLF, Chars("ab"), <<>>) : p \in {Chars("/x"), Chars("/p")}}
    \cup {Bodyless(m, Chars("/p"), <<>>, Localhost, CRLF, Trailing(1)) : m \in {HEAD, OPTIONS}}
    \* every calling convention, and paths that are members of Object.prototype
    \cup {Bodyless(GET, p, <<>>, Localhost, CRLF, Trailing(n)) :
        p \in {Chars("/2"), Chars("/3")}, n \in 0..1}
    \cup {Post(p, Localhost, "space", CRLF, Chars("ab"), <<>>) : p \in {Chars("/2"), Chars("/3")}}
    \cup {Bodyless(m, p, <<>>, Localhost, CRLF, <<>>) :
        m \in {GET, HEAD, PUT}, p \in {Chars("toString"), Chars("constructor")}}
    \* the values of Host
    \cup {Bodyless(m, p, <<>>, h, CRLF, <<>>) :
        m \in {GET, PUT, Chars("get")}, p \in {Chars("/1"), Chars("/x")},
        h \in BadHosts \cup {Chars("127.0.0.1:80")}}
    \cup {Post(Chars("/1"), h, "space", CRLF, Chars("ab"), <<>>) : h \in BadHosts}
    \cup {Bodyless(GET, Chars("/1"), <<>>, h, CRLF, Smuggled) : h \in BadHosts}
    \* the ways to write, or not to write, Content-Length
    \cup {Post(Chars("/1"), Localhost, cl, CRLF, <<>>, <<>>) : cl \in {"none", "nan", "space"}}
    \cup {Post(Chars("/1"), Localhost, "nospace", CRLF, Chars("ab"), <<>>)}

Results == {Result(200, Undefined, Undefined), Result(201, TextPlain, Chars("ok"))}

\* what the code of a handler may do when its class is instantiated and init is
\* called: throw from the constructor, throw from init, answer before returning,
\* answer later, answer and then throw
Behaviours ==
    {<<how, Result(200, Undefined, Undefined)>> : how \in {"throwNew", "throw", "async"}}
    \cup {<<how, result>> : how \in {"sync", "respondThenThrow"}, result \in Results}

(***************************************************************************)
(* Zotero.Server: init, close and the observer of the network's status     *)
(***************************************************************************)
\* Zotero.Prefs.get('httpServer.port'), and another port a caller may name
PrefPort == 1
OtherPort == 2

\* Zotero.Server when the file is loaded.  serv is the port of the bound socket,
\* 0 when undefined; sockets are the ports bound by server sockets that were
\* not closed; observers counts the calls of addObserver; binds counts the
\* calls of nsIServerSocket.init and errors the calls of Zotero.logError;
\* offline is Zotero.HTTP.browserIsOffline().  Two fields record what the owner
\* did: deferred holds the ports that the calls of init made while offline asked
\* for, since the last bind; released says that close() released the socket and
\* the owner has not called init since.
Server ==
    [serv |-> 0, onlineObserverRegistered |-> FALSE, offline |-> FALSE, sockets |-> {},
     observers |-> 0, binds |-> 0, errors |-> 0, deferred |-> {}, released |-> FALSE]

\* _registerOnlineObserver without its test of _onlineObserverRegistered
RegisterObserverAgain(s) == [s EXCEPT !.observers = @ + 1, !.onlineObserverRegistered = TRUE]

\* _registerOnlineObserver()
_registerOnlineObserver(s) ==
    IF s.onlineObserverRegistered THEN s
    ELSE [s EXCEPT !.observers = @ + 1, !.onlineObserverRegistered = TRUE]

\* the catch block of init without its assignment serv = undefined
BindFailedKeepingServ(s, port) ==
    [s EXCEPT !.serv = port, !.binds = @ + 1, !.errors = @ + 1, !.deferred = {}]

\* lines 57-76 when serv.init throws: the catch block
BindFailed(s, port) ==
    [s EXCEPT !.serv = 0, !.binds = @ + 1, !.errors = @ + 1, !.deferred = {}]

\* lines 57-72: the socket is created and bound.  The bind throws when the
\* platform refuses it (bindOk is false) or the port is already bound.
Bind(s, port, bindOk) ==
    IF bindOk /\ port \notin s.sockets
    THEN [s EXCEPT !.serv = port, !.sockets = @ \cup {port}, !.binds = @ + 1,
                   !.deferred = {}]
    ELSE BindFailed(s, port)

\* lines 46-50: the browser is offline, so init only registers the observer; the
\* port it was called with is kept nowhere
Deferred(s, port) ==
    [_registerOnlineObserver(s) EXCEPT !.deferred = @ \cup {IF port # 0 THEN port ELSE PrefPort}]

\* init that does not look at serv before it binds
InitUnguarded(s, port, bindOk) ==
    IF s.offline THEN Deferred(s, port)
    ELSE _registerOnlineObserver(Bind(s, IF port # 0 THEN port ELSE PrefPort, bindOk))

\* init(port, bindAllAddr, maxConcurrentConnections); port 0 is a port not given
init(s, port, bindOk) ==
    IF s.offline THEN Deferred(s, port)
    ELSE IF s.serv # 0 THEN [s EXCEPT !.deferred = {}]
    ELSE _registerOnlineObserver(Bind(s, IF port # 0 THEN port ELSE PrefPort, bindOk))

\* close()
close(s) ==
    IF s.serv = 0 THEN s
    ELSE [s EXCEPT !.sockets = @ \ {s.serv}, !.serv = 0, !.released = TRUE]

\* the observers' observe(subject, "network:offline-status-changed", data): each
\* registered observer calls Zotero.Server.init() when data is 'online'
observe(s, data, bindOk) ==
    IF data = "online" /\ s.observers > 0 THEN init(s, 0, bindOk) ELSE s

\* the server of a connection: init was called while online and the bind succeeded
Listening == init(Server, 0, TRUE)

Conns == {1}

Init ==
    /\ isServer \in BOOLEAN
    /\ req \in [Conns -> Requests]
    /\ net = [i \in Conns |-> Bytes(req[i])]
    /\ stopped = [i \in Conns |-> FALSE]
    /\ conns = [i \in Conns |-> DataListener]
    /\ server = Listening

\* whether readData can make onDataAvailable call _processEndpoint
MayDispatch(c, readData) == c.headerFinished \/ HeaderEnd(c.header, readData) # -1

\* the pump reads some of the bytes that have arrived and calls onDataAvailable
DataAvailable(i) ==
    /\ ~stopped[i]
    /\ conns[i].iCloses = 0
    /\ Len(conns[i].calls) < MaxCalls
    /\ \E count \in 1..Len(net[i]) :
          /\ net' = [net EXCEPT ![i] = SubSeq(@, count + 1, Len(@))]
          /\ \E b \in IF MayDispatch(conns[i], SubSeq(net[i], 1, count))
                      THEN Behaviours ELSE {<<"async", Result(200, Undefined, Undefined)>>} :
                conns' = [conns EXCEPT
                             ![i] = onDataAvailable(@, SubSeq(net[i], 1, count), b[1], b[2])]
    /\ UNCHANGED <<isServer, req, stopped, server>>

\* the transport signals that the request stopped
StopRequest(i) ==
    /\ ~stopped[i]
    /\ stopped' = [stopped EXCEPT ![i] = TRUE]
    /\ conns' = [conns EXCEPT ![i] = onStopRequest(@)]
    /\ UNCHANGED <<isServer, req, net, server>>

\* a two- or three-parameter handler calls sendResponseCallback after init returned
HandlerResponds(i) ==
    \E k \in 1..Len(conns[i].calls), result \in Results :
        LET c == conns[i]
            call == c.calls[k]
        IN  /\ call.invoked /\ call.arity >= 2
            /\ call.responds < MaxResponds
            /\ conns' = [conns EXCEPT ![i] =
                   [_requestFinished(c, _generateResponse(c, result.code, result.contentType,
                                                          result.arg))
                       EXCEPT !.calls[k].responds = @ + 1,
                              !.calls[k].answers = Append(@, result)]]
            /\ UNCHANGED <<isServer, req, net, stopped, server>>

\* the fulfilment of a promise, were its response written to the stream of the
\* connection accepted last instead of the listener's own
PromiseResolvesOnLast(i) ==
    \E k \in 1..Len(conns[i].calls), result \in Results :
        LET call == conns[i].calls[k]
            last == Len(conns)
        IN  /\ call.awaiting
            /\ conns' = [[conns EXCEPT ![i].calls[k].awaiting = FALSE]
                           EXCEPT ![last] = _requestFinished(@,
                               _generateResponse(@, result.code, result.contentType,
                                                 result.arg))]
            /\ UNCHANGED <<isServer, req, net, stopped, server>>

\* the promise a single-parameter handler returned is fulfilled
PromiseResolves(i) ==
    \E k \in 1..Len(conns[i].calls), result \in Results :
        LET call == conns[i].calls[k]
        IN  /\ call.awaiting
            /\ conns' = [conns EXCEPT ![i] = Respond(@, [call EXCEPT !.awaiting = FALSE], result)]
            /\ UNCHANGED <<isServer, req, net, stopped, server>>

\* the promise a single-parameter handler returned is rejected
PromiseRejects(i) ==
    \E k \in 1..Len(conns[i].calls) :
        LET call == conns[i].calls[k]
        IN  /\ call.awaiting
            /\ conns' = [conns EXCEPT ![i] = Catch(@, [call EXCEPT !.awaiting = FALSE])]
            /\ UNCHANGED <<isServer, req, net, stopped, server>>

Next ==
    \E i \in DOMAIN conns :
        \/ DataAvailable(i)
        \/ StopRequest(i)
        \/ HandlerResponds(i)
        \/ PromiseResolves(i)
        \/ PromiseRejects(i)

Spec == Init /\ [][Next]_vars

(***************************************************************************)
(* Requests that meet the checks of _processEndpoint: endpoints that       *)
(* restrict methods, content types and the bookmarklet; bodies of each     *)
(* content type; each calling convention                                   *)
(***************************************************************************)
\* header lines that give a connection its origin
FromBookmarklet == Chars("Origin: https://www.zotero.org")
FromHttpBookmarklet == Chars("Origin: http://www.zotero.org")
FromElsewhere == Chars("Origin: http://e.org")
Marker == Chars("Zotero-Bookmarklet: 1")

\* a POST of a body with a Content-Type line
Typed(path, type, body) ==
    WithFields(Post(path, Localhost, "space", CRLF, body, <<>>),
               <<Chars("Content-Type: ") \o type>>)

Json == Chars("application/json")
Form == Chars("application/x-www-form-urlencoded")

PolicyRequests ==
    \* endpoints that support one method only
    {Bodyless(GET, Chars("/g"), <<>>, Localhost, CRLF, Trailing(n)) : n \in 0..MaxExtra}
    \cup {Post(Chars("/g"), Localhost, "space", CRLF, Chars("ab"), <<>>)}
    \cup {Bodyless(GET, Chars("/p"), <<>>, Localhost, CRLF, <<>>)}
    \* every origin, on an endpoint that permits the bookmarklet and on others
    \cup {WithFields(Bodyless(GET, Chars("/1"), <<>>, Localhost, CRLF, <<>>), <<o>>) :
            o \in {FromBookmarklet, FromHttpBookmarklet, FromElsewhere, Marker}}
    \cup {WithFields(Bodyless(GET, Chars("/1"), <<>>, Localhost, CRLF, <<>>),
                     <<FromElsewhere, Marker>>)}
    \cup {WithFields(Bodyless(GET, Chars("/b"), <<>>, Localhost, CRLF, <<>>), <<o>>) :
            o \in {FromBookmarklet, Marker}}
    \cup {WithFields(Bodyless(GET, p, <<>>, h, CRLF, <<>>), <<FromBookmarklet>>) :
            p \in {Chars("/p"), Chars("/x")}, h \in {Localhost}}
    \cup {WithFields(Bodyless(GET, Chars("/1"), <<>>, NoHost, CRLF, <<>>), <<FromBookmarklet>>)}
    \* bodies of each content type, on an endpoint that takes JSON only and on one
    \* that takes anything
    \cup {Typed(Chars("/p"), TextPlain, b) : b \in {Chars("ab"), <<>>}}
    \cup {Typed(p, Json, b) : p \in {Chars("/p"), Chars("/1")},
                              b \in {Chars("[1]"), Chars("[1"), <<>>}}
    \cup {Typed(Chars("/1"), t, Chars("a=1")) : t \in {TextPlain, Form}}
    \cup {Post(Chars("/1"), Localhost, "space", CRLF, Chars("ab"), <<>>)}
    \* the three-parameter convention
    \cup {WithFields(Bodyless(GET, Chars("/3"), Chars("?a=1"), Localhost, CRLF, <<>>),
                     <<Chars("User-Agent: x")>>)}

PolicyInit ==
    /\ isServer \in BOOLEAN
    /\ req \in [Conns -> PolicyRequests]
    /\ net = [i \in Conns |-> Bytes(req[i])]
    /\ stopped = [i \in Conns |-> FALSE]
    /\ conns = [i \in Conns |-> DataListener]
    /\ server = Listening

PolicySpec == PolicyInit /\ [][Next]_vars

(***************************************************************************)
(* The server's owner, the host's network and the clients that connect     *)
(***************************************************************************)
\* the calls of nsIServerSocket.init followed; the connections followed while
\* the owner operates the server, and while it only listens
MaxBinds == 3
MaxServed == 1
MaxConns == 2

\* the requests of the clients that connect while the server listens: to a
\* handler that returns a promise and to one that is given sendResponseCallback,
\* and one from the bookmarklet
DirectRequests ==
    {Bodyless(GET, p, <<>>, Localhost, CRLF, <<>>) : p \in {Chars("/1"), Chars("/2")}}
ServedRequests ==
    DirectRequests
    \cup {WithFields(Bodyless(GET, Chars("/b"), <<>>, Localhost, CRLF, <<>>),
                     <<FromBookmarklet>>)}

\* the owner calls Zotero.Server.init, with or without a port
InitCalled ==
    /\ server.binds < MaxBinds
    /\ \E port \in {0, OtherPort}, bindOk \in BOOLEAN :
          server' = init([server EXCEPT !.released = FALSE], port, bindOk)
    /\ UNCHANGED <<isServer, req, net, stopped, conns>>

\* the owner calls Zotero.Server.close
CloseCalled ==
    /\ server' = close(server)
    /\ UNCHANGED <<isServer, req, net, stopped, conns>>

\* the network goes offline or online and the observers are notified
StatusChanged ==
    /\ server.binds < MaxBinds
    /\ \E data \in {"online", "offline"}, bindOk \in BOOLEAN :
          /\ server.offline # (data = "offline")
          /\ server' = observe([server EXCEPT !.offline = (data = "offline")], data, bindOk)
    /\ UNCHANGED <<isServer, req, net, stopped, conns>>

\* onSocketAccepted(socket, transport): a DataListener for the new connection
SocketAccepted(limit, requests) ==
    /\ server.serv # 0
    /\ Len(conns) < limit
    /\ \E r \in requests :
          /\ req' = Append(req, r)
          /\ net' = Append(net, Bytes(r))
    /\ stopped' = Append(stopped, FALSE)
    /\ conns' = Append(conns, DataListener)
    /\ UNCHANGED <<isServer, server>>

ServerInit ==
    /\ isServer \in BOOLEAN
    /\ req = <<>>
    /\ net = <<>>
    /\ stopped = <<>>
    /\ conns = <<>>
    /\ server \in {Server, [Server EXCEPT !.offline = TRUE]}

ServerNext ==
    \/ InitCalled
    \/ CloseCalled
    \/ StatusChanged
    \/ SocketAccepted(MaxServed, DirectRequests)
    \/ Next

ServerSpec == ServerInit /\ [][ServerNext]_vars

\* the server listens; on its first connection a request arrived in one chunk
\* and the promise its single-parameter handler returned is pending
PendingInit ==
    /\ isServer \in BOOLEAN
    /\ req = <<Bodyless(GET, Chars("/1"), <<>>, Localhost, CRLF, <<>>)>>
    /\ net = << <<>> >>
    /\ stopped = <<FALSE>>
    /\ conns = <<onDataAvailable(DataListener, Bytes(req[1]), "async",
                                 Result(200, Undefined, Undefined))>>
    /\ server = Listening

ConnectionsNext ==
    \/ SocketAccepted(MaxConns, ServedRequests)
    \/ Next

ConnectionsSpec == PendingInit /\ [][ConnectionsNext]_vars

(***************************************************************************)
(* Clients that post multipart/form-data                                   *)
(***************************************************************************)
\* a field of a form: its name, its payload, and the blank line (CR LF CR LF or
\* LF LF) the client puts between its header block and the payload
Part(name, payload, blank) == [name |-> name, payload |-> payload, blank |-> blank]

\* the header block of a field
Disposition(part) == Chars("Content-Disposition: form-data; name=") \o part.name

\* the fields of a body, each after a delimiter line of the boundary X
RECURSIVE Segments(_)
Segments(parts) ==
    IF parts = <<>> THEN <<>>
    ELSE Chars("--X") \o CRLF \o Disposition(parts[1]) \o parts[1].blank
         \o parts[1].payload \o CRLF \o Segments(Tail(parts))

\* a POST of these fields, closed by the last delimiter
MultipartPost(path, parts) ==
    Typed(path, Chars("multipart/form-data; boundary=X"), Segments(parts) \o Chars("--X--"))

\* forms whose fields are separated the Windows way, the Unix way, and both
WindowsForms ==
    {<<Part(Chars("a"), Chars("1"), CRLF \o CRLF)>>,
     <<Part(Chars("a"), Chars("1"), CRLF \o CRLF), Part(Chars("b"), Chars("2 3"), CRLF \o CRLF)>>}
UnixForms ==
    {<<Part(Chars("a"), Chars("1"), <<LF, LF>>)>>,
     <<Part(Chars("a"), Chars("1") \o CRLF \o CRLF \o Chars("2"), <<LF, LF>>)>>}

\* a field without a blank line, a header without a boundary parameter, and a
\* multipart POST without a body
MalformedPosts ==
    {MultipartPost(Chars("/2"), <<Part(Chars("a"), Chars("1"), <<SP>>)>>),
     MultipartPost(Chars("/2"), <<Part(Chars("a"), Chars("1"), CRLF \o CRLF),
                                  Part(Chars("b"), Chars("2"), <<SP>>)>>),
     Typed(Chars("/2"), Chars("multipart/form-data"), Segments(<<Part(Chars("a"), Chars("1"), CRLF \o CRLF)>>) \o Chars("--X--")),
     Typed(Chars("/1"), Chars("multipart/form-data"), <<>>)}

MultipartRequests ==
    {MultipartPost(Chars("/2"), parts) : parts \in WindowsForms \cup UnixForms}
    \cup {MultipartPost(Chars("/1"), parts) : parts \in WindowsForms}
    \cup MalformedPosts

\* the bytes of a request up to its body; of a request without a body, none
HeadBytes(r) ==
    IF r.body = <<>> THEN <<>> ELSE SubSeq(Bytes(r), 1, Len(Bytes(r)) - Len(r.body))

\* the head of a request that has a body has arrived, in one chunk
MultipartInit ==
    /\ isServer \in BOOLEAN
    /\ req \in [Conns -> MultipartRequests]
    /\ net = [i \in Conns |-> SubstrFrom(Bytes(req[i]), Len(HeadBytes(req[i])))]
    /\ stopped = [i \in Conns |-> FALSE]
    /\ conns = [i \in Conns |->
                   IF HeadBytes(req[i]) = <<>> THEN DataListener
                   ELSE onDataAvailable(DataListener, HeadBytes(req[i]), "sync",
                                        Result(200, Undefined, Undefined))]
    /\ server = Listening

MultipartSpec == MultipartInit /\ [][Next]_vars

(***************************************************************************)
(* What a client and the listener's owner can observe                      *)
(***************************************************************************)
\* the listener after onDataAvailable delivered all the bytes of r in one chunk
Whole(r) == onDataAvailable(DataListener, Bytes(r), "sync", Result(200, Undefined, Undefined))

\* a request every part of which is as the server's grammar wants it
WellFormed(r) ==
    /\ r.host \in GoodHosts
    /\ r.extra = <<>>
    /\ r.method \in {GET, POST, HEAD, OPTIONS, PUT, DELETE}
    /\ r.contentLength = IF r.method = POST THEN "space" ELSE "none"

\* what the listener has parsed of a request when it dispatches or answers it
Parsed(c) ==
    [method |-> methodRe(c.header).method, pathname |-> c.pathname, query |-> c.query,
     headers |-> Headers(c.header),
     body |-> IF c.calls = <<>> THEN Null ELSE c.calls[1].postData]

\* the request was dispatched or answered
Settled(c) == c.calls # <<>> \/ c.responseSent

\* _headerFinished ran and did not stop at the Host check
GatePassed(c) == c.headerFinished /\ (isServer \/ hostRe(c.header))

\* write attempts on the output stream: those that wrote and those that threw
WriteAttempts(c) == Len(c.written) + c.failedWrites

\* the states of a connection in their order: reading the header (1), reading
\* the body (2), dispatching (3), responded and closed (4)
Phase(c) ==
    IF c.responseSent THEN 4
    ELSE IF c.calls # <<>> THEN 3
    ELSE IF c.headerFinished THEN 2
    ELSE 1

\* the calls of _processEndpoint that constructed the endpoint, that called init
Instantiations(c) == {k \in 1..Len(c.calls) : c.calls[k].instantiated}
Invocations(c) == {k \in 1..Len(c.calls) : c.calls[k].invoked}

(***************************************************************************)
(* C1                                                                      *)
(***************************************************************************)
\* C1: for a well-formed request, what the listener has parsed when it dispatches
\* or answers (method, pathname, query, headers, body) is what it parses when
\* the same bytes arrive in one chunk, however the bytes were split into chunks
C1_ChunkingInvariance ==
    \A i \in Conns :
        WellFormed(req[i]) /\ Settled(conns[i]) => Parsed(conns[i]) = Parsed(Whole(req[i]))

(***************************************************************************)
(* C2                                                                      *)
(***************************************************************************)
\* C2: a connection's output stream sees at most one write attempt, whatever
\* chunks arrive and however often handlers complete or call back: every
\* completion after the first is discarded before it reaches the stream
C2_AtMostOneResponse == \A i \in Conns : WriteAttempts(conns[i]) <= 1

\* C2 witness: one response is on the stream and a handler has called back twice
C2_DuplicateCallback ==
    \E i \in Conns :
        /\ Len(conns[i].written) = 1
        /\ \E k \in 1..Len(conns[i].calls) : conns[i].calls[k].responds >= 2

(***************************************************************************)
(* C3                                                                      *)
(***************************************************************************)
\* the response of the Host check
InvalidHost(c) == _generateResponse(c, 400, TextPlain, Chars("Invalid Host header\n"))

\* C3: outside headless mode, a request whose header has no Host line, or one
\* whose value is not localhost or 127.0.0.1 with an optional port, never has a
\* handler instantiated or invoked, and the only response it gets is the 400
\* "Invalid Host header"
C3_HostGate ==
    \A i \in Conns :
        ~isServer /\ req[i].host \in BadHosts =>
            /\ Instantiations(conns[i]) = {}
            /\ Invocations(conns[i]) = {}
            /\ conns[i].written \in {<<>>, <<InvalidHost(conns[i])>>}

(***************************************************************************)
(* C4                                                                      *)
(***************************************************************************)
\* C4: a connection only moves forward through reading header, reading body,
\* dispatching, responded: a finished header is never processed again, and
\* from dispatching on no step accumulates body bytes or dispatches again
C4_ForwardOnly ==
    [][\A i \in Conns :
          /\ Phase(conns'[i]) >= Phase(conns[i])
          /\ conns[i].headerFinished =>
                conns'[i].headerRuns = conns[i].headerRuns /\ conns'[i].header = conns[i].header
          /\ Phase(conns[i]) >= 3 =>
                conns'[i].body = conns[i].body /\ Len(conns'[i].calls) = Len(conns[i].calls)]_vars

(***************************************************************************)
(* C5                                                                      *)
(***************************************************************************)
\* C5: on one connection the endpoint is instantiated at most once and its
\* init is called at most once, whatever bytes follow the request
C5_OneRequestPerConnection ==
    \A i \in Conns :
        /\ Cardinality(Instantiations(conns[i])) <= 1
        /\ Cardinality(Invocations(conns[i])) <= 1

(***************************************************************************)
(* C6                                                                      *)
(***************************************************************************)
\* a POST to a registered path that declares the length of its body
DeclaresLength(r) ==
    /\ r.method = POST
    /\ r.contentLength = "space"
    /\ r.path \in DOMAIN Registered
    /\ r.host \in GoodHosts

\* how many bytes of the request's body the pump has delivered
BodyDelivered(r, undelivered) ==
    IF Len(undelivered) >= Len(r.body) + Len(r.extra) THEN 0
    ELSE IF Len(undelivered) <= Len(r.extra) THEN Len(r.body)
    ELSE Len(r.body) + Len(r.extra) - Len(undelivered)

\* C6: when a POST that declares Content-Length N is first dispatched to its
\* handler, the N bytes of its body have all been delivered, and the handler's
\* input is the text decoded from exactly those N bytes
C6_BodyComplete ==
    \A i \in Conns :
        DeclaresLength(req[i]) /\ conns[i].calls # <<>> =>
            /\ BodyDelivered(req[i], net[i]) >= Len(req[i].body)
            /\ conns[i].calls[1].postData = Utf8Decode(req[i].body)

(***************************************************************************)
(* C7                                                                      *)
(***************************************************************************)
\* C7: when the header passed the Host check, a request line that methodRe does
\* not match is answered 400, and one whose path is not a registered endpoint
\* is answered 404 "No endpoint found" whatever its method, and in neither case
\* is a handler instantiated or invoked
C7_NotFound ==
    \A i \in Conns :
        GatePassed(conns[i]) /\ methodRe(conns[i].header).path \notin DOMAIN Registered =>
            /\ Instantiations(conns[i]) = {}
            /\ Invocations(conns[i]) = {}
            /\ conns[i].written =
                  IF methodRe(conns[i].header).matched
                  THEN <<_generateResponse(conns[i], 404, TextPlain, Chars("No endpoint found\n"))>>
                  ELSE <<_generateResponse(conns[i], 400, TextPlain,
                                           Chars("Invalid method specified\n"))>>

(***************************************************************************)
(* C8                                                                      *)
(***************************************************************************)
\* a method name as methodRe accepts it
Uppercase(method) == method # <<>> /\ \A k \in 1..Len(method) : IsUpper(method[k])

\* C8: when the header passed the Host check, a request to a registered path
\* with a method other than GET, POST, HEAD, OPTIONS is answered 501, and its
\* endpoint is never instantiated or invoked
C8_NotImplemented ==
    \A i \in Conns :
        /\ GatePassed(conns[i])
        /\ req[i].path \in DOMAIN Registered
        /\ Uppercase(req[i].method)
        /\ req[i].method \notin {GET, POST, HEAD, OPTIONS}
        => /\ conns[i].calls = <<>>
           /\ conns[i].written =
                 <<_generateResponse(conns[i], 501, TextPlain, Chars("Method not implemented\n"))>>

\* C8 witness: a PUT to a registered path has been answered
C8_PutAnswered ==
    \E i \in Conns :
        /\ req[i].method \in {PUT, DELETE}
        /\ req[i].path \in DOMAIN Registered
        /\ GatePassed(conns[i])
        /\ conns[i].written # <<>>

(***************************************************************************)
(* C9                                                                      *)
(***************************************************************************)
\* the end of a response without a body
EndsBodyless(response) ==
    LET end == Chars("Content-Length: 0") \o CRLF \o CRLF
    IN  /\ Len(response) >= Len(end)
        /\ SubSeq(response, Len(response) - Len(end) + 1, Len(response)) = end

\* C9: when the header passed the Host check, a HEAD or OPTIONS request to a
\* registered path is answered in the step that finishes the header, by a 200
\* that ends with Content-Length: 0 and has no body, and its endpoint is never
\* instantiated or invoked, whatever the endpoint supports
C9_EmptyOk ==
    \A i \in Conns :
        /\ GatePassed(conns[i])
        /\ req[i].path \in DOMAIN Registered
        /\ req[i].method \in {HEAD, OPTIONS}
        => /\ conns[i].calls = <<>>
           /\ conns[i].written = <<_generateResponse(conns[i], 200, Undefined, Undefined)>>
           /\ EndsBodyless(conns[i].written[1])

\* C9 witness: a HEAD to the endpoint that supports only POST has been answered
\* while a byte the client sent after the header is still undelivered
C9_HeadAnsweredEarly ==
    \E i \in Conns :
        /\ req[i].method = HEAD
        /\ req[i].path = Chars("/p")
        /\ GatePassed(conns[i])
        /\ conns[i].written # <<>>
        /\ net[i] # <<>>

(***************************************************************************)
(* C10                                                                     *)
(***************************************************************************)
\* the response to a POST without a usable Content-Length
NoContentLength(c) ==
    _generateResponse(c, 400, TextPlain, Chars("Content-length not provided\n"))

\* C10: when the header passed the Host check, a POST to a registered path
\* without Content-Length, or with one that is not a number, is answered 400 and
\* never dispatched; with a numeric Content-Length, written with or without a
\* space after the colon, it is not refused and the declared length is taken
C10_ContentLength ==
    \A i \in Conns :
        GatePassed(conns[i]) /\ req[i].method = POST /\ req[i].path \in DOMAIN Registered =>
            IF req[i].contentLength \in {"none", "nan"}
            THEN conns[i].calls = <<>> /\ conns[i].written = <<NoContentLength(conns[i])>>
            ELSE /\ conns[i].written # <<NoContentLength(conns[i])>>
                 /\ conns[i].bodyLength = Len(req[i].body)

(***************************************************************************)
(* C11                                                                     *)
(***************************************************************************)
\* the calls of _processEndpoint with a method the endpoint's supportedMethods
\* leaves out, on an endpoint that was constructed
Unsupported(c) ==
    {k \in 1..Len(c.calls) :
        /\ c.calls[k].instantiated
        /\ c.endpoint.supportedMethods.defined
        /\ ~InList(c.calls[k].method, c.endpoint.supportedMethods.list)}

\* C11: when an endpoint declares supportedMethods and _processEndpoint is
\* called with a method that is not among them, init is not invoked by that
\* call and the connection's response is the 400 "Endpoint does not support
\* method"; so no init is ever invoked with a method outside the set
C11_MethodPolicy ==
    \A i \in Conns :
        /\ \A k \in Unsupported(conns[i]) :
              /\ ~conns[i].calls[k].invoked
              /\ conns[i].written =
                    <<_generateResponse(conns[i], 400, TextPlain,
                                        Chars("Endpoint does not support method\n"))>>
        /\ \A k \in Invocations(conns[i]) :
              conns[i].endpoint.supportedMethods.defined =>
                  InList(conns[i].calls[k].method, conns[i].endpoint.supportedMethods.list)

\* C11 witness: a POST was dispatched to an endpoint that supports GET only
C11_Refused ==
    \E i \in Conns :
        /\ Unsupported(conns[i]) # {}
        /\ req[i].path = Chars("/g")
        /\ req[i].method = POST

(***************************************************************************)
(* C12                                                                     *)
(***************************************************************************)
\* the response of lines 377-378
Forbidden(c) == _generateResponse(c, 403, TextPlain, Chars("Access forbidden to bookmarklet\n"))

\* the calls of _processEndpoint that reach the bookmarklet check: the endpoint
\* was constructed and supports the method
Vetted(c) ==
    {k \in Instantiations(c) : MethodSupported(c.endpoint, c.calls[k].method)}

\* the bookmarklet policy, for a given set of origins that count as the bookmarklet's
BookmarkletPolicy(i, origins) ==
    /\ ~isServer /\ conns[i].headerFinished /\ req[i].fields = <<Marker>>
          => conns[i].origin = BOOKMARKLET_ORIGIN
    /\ \A k \in Vetted(conns[i]) :
          conns[i].origin \in origins /\ ~conns[i].endpoint.permitBookmarklet
              => ~conns[i].calls[k].invoked /\ conns[i].written = <<Forbidden(conns[i])>>
    /\ conns[i].written = <<Forbidden(conns[i])>>
          => /\ conns[i].origin \in origins
             /\ ~(conns[i].endpoint.kind = "endpoint" /\ conns[i].endpoint.permitBookmarklet)

\* C12 as stated: a request whose origin is the trusted bookmarklet origin
\* https://www.zotero.org (sent as Origin, or stood for by the marker header when
\* there is no Origin) to an endpoint without permitBookmarklet gets 403 and init
\* is not invoked; a request with any other origin, or to an endpoint that set
\* permitBookmarklet, is never answered 403
C12_OneBookmarkletOrigin ==
    \A i \in Conns : BookmarkletPolicy(i, {BOOKMARKLET_ORIGIN})

\* C12 amended: the same with either of the two bookmarklet origins,
\* https://www.zotero.org and http://www.zotero.org, and for a request that
\* passed the endpoint's method check
C12_BookmarkletPolicy ==
    \A i \in Conns : BookmarkletPolicy(i, {BOOKMARKLET_ORIGIN, HTTP_BOOKMARKLET_ORIGIN})

\* C12 witness: a request with Origin: http://www.zotero.org was dispatched to an
\* endpoint without permitBookmarklet and answered 403
C12_HttpOriginForbidden ==
    \E i \in Conns :
        /\ Vetted(conns[i]) # {}
        /\ conns[i].origin = HTTP_BOOKMARKLET_ORIGIN
        /\ conns[i].written = <<Forbidden(conns[i])>>

(***************************************************************************)
(* C13                                                                     *)
(***************************************************************************)
\* the POST calls of _processEndpoint that reach line 385: they passed the
\* method check and the bookmarklet check
Posted(c) ==
    {k \in Vetted(c) :
        c.calls[k].method = POST /\ ~ForbiddenToBookmarklet(c.origin, c.endpoint)}

\* the endpoint restricts the content types and the request declares one that
\* is not among them
TypeRefused(c) ==
    /\ c.endpoint.supportedDataTypes.defined
    /\ c.endpoint.supportedDataTypes.list # <<Chars("*")>>
    /\ Truthy(c.contentType)
    /\ ~InList(c.contentType, c.endpoint.supportedDataTypes.list)

\* C13: a POST with a declared Content-Type outside the endpoint's restricted
\* supportedDataTypes is answered 400 "Endpoint does not support content-type"
\* and init is not invoked, whatever the body, the empty body included
C13_ContentTypePolicy ==
    \A i \in Conns : \A k \in Posted(conns[i]) :
        TypeRefused(conns[i]) =>
            /\ ~conns[i].calls[k].invoked
            /\ conns[i].written =
                  <<_generateResponse(conns[i], 400, TextPlain,
                                      Chars("Endpoint does not support content-type\n"))>>

(***************************************************************************)
(* C14                                                                     *)
(***************************************************************************)
\* the POST calls whose Content-Type is application/json, on an endpoint that
\* accepts it
PostedJson(c) ==
    {k \in Posted(c) : c.contentType = Json /\ ~TypeRefused(c)}

\* what C14 says of a call with this body
JsonPolicy(c, call, json) ==
    IF json.ok THEN call.invoked => call.args.data = Data("json", json.v)
    ELSE /\ ~call.invoked
         /\ c.written = <<_generateResponse(c, 400, TextPlain, Chars("Invalid JSON provided\n"))>>

\* C14: for a POST with Content-Type application/json, init receives the value
\* the body parses to, and a body that does not parse as JSON is answered 400
\* "Invalid JSON provided" without init being invoked
C14_JsonBody ==
    \A i \in Conns : \A k \in PostedJson(conns[i]) :
        JsonPolicy(conns[i], conns[i].calls[k], JSONparse(conns[i].calls[k].postData))

(***************************************************************************)
(* C15                                                                     *)
(***************************************************************************)
\* the POST calls whose Content-Type is none of the three decoded ones, the
\* missing Content-Type included, and that went on to init
PostedRaw(c) ==
    {k \in Posted(c) :
        /\ c.contentType \notin {Json, Form, Chars("multipart/form-data")}
        /\ ~TypeRefused(c)
        /\ c.calls[k].invoked}

\* C15: for a POST whose Content-Type is none of application/json,
\* application/x-www-form-urlencoded and multipart/form-data, or that has no
\* Content-Type header, the data init receives is the text of the body
C15_RawBody ==
    \A i \in Conns : \A k \in PostedRaw(conns[i]) :
        conns[i].calls[k].args.data = Data("raw", conns[i].calls[k].postData)

(***************************************************************************)
(* C16                                                                     *)
(***************************************************************************)
\* the status code a client reads in the status line "HTTP/1.0 <code> <reason>"
StatusOf(response) == ParseInt(SubSeq(response, 10, RunEnd(response, 10, Digit) - 1))

\* what call k of the listener had passed to sendResponseCallback before this step
AnswersBefore(i, k) == IF k <= Len(conns[i].calls) THEN conns[i].calls[k].answers ELSE <<>>

\* in this step call k of _processEndpoint threw or its handler's promise was
\* rejected, caught by the catch block, before the listener had sent a response
ThrewUnanswered(i, k) ==
    /\ k \in 1..Len(conns'[i].calls)
    /\ conns'[i].calls[k].state = "rejected"
    /\ k <= Len(conns[i].calls) => conns[i].calls[k].state = "pending"
    /\ conns'[i].calls[k].answers = AnswersBefore(i, k)
    /\ ~conns[i].responseSent

\* C16: whenever a dispatch throws or rejects before any response was sent, the
\* catch block writes a response with status 500, the only response of the
\* connection
C16_ErrorAnswered ==
    [][\A i \in Conns : \A k \in 1..MaxCalls :
          ThrewUnanswered(i, k) =>
              /\ Len(conns'[i].written) = 1
              /\ StatusOf(conns'[i].written[1]) = 500]_vars

(***************************************************************************)
(* C17                                                                     *)
(***************************************************************************)
\* what a client reads in a response: the Content-Type field and the bytes
\* after the blank line
ContentTypeOf(response) == contentTypeRe(response)
BodyOf(response) == SubstrFrom(response, IndexOf(response, CRLF \o CRLF) + 4)

\* the response carries the status, or the status, content type and body, of
\* a handler's result
Carries(response, result) ==
    /\ StatusOf(response) = result.code
    /\ ContentTypeOf(response) = (IF Truthy(result.contentType) THEN result.contentType ELSE Null)
    /\ BodyOf(response) = (IF Truthy(result.arg) THEN result.arg ELSE <<>>)

\* the names init receives besides the callback, by the calling convention
Convention(arity) ==
    IF arity = 1 THEN {"method", "pathname", "query", "headers", "data"}
    ELSE IF arity = 2 THEN {"data"}
    ELSE {"pathname", "query", "userAgent", "data"}

\* init was called under the convention of the endpoint's arity
Conventional(c, call) ==
    /\ call.arity = c.endpoint.arity
    /\ DOMAIN call.args = Convention(c.endpoint.arity)
    /\ c.endpoint.arity # 2 => call.args.pathname = c.pathname
    /\ c.endpoint.arity = 1 => call.args.method = call.method

\* in this step the handler of call k returned, resolved to or passed to the
\* callback a result, while no response had been sent and the output stream
\* was open
Answered(i, k) ==
    /\ k \in 1..Len(conns'[i].calls)
    /\ conns'[i].calls[k].invoked
    /\ Len(conns'[i].calls[k].answers) = Len(AnswersBefore(i, k)) + 1
    /\ ~conns[i].responseSent
    /\ conns[i].oCloses = 0

ErrorResponses(c) == {n \in 1..Len(c.written) : StatusOf(c.written[n]) >= 400}

\* C18: every error response the server generates itself, the 500 sent when a
\* handler throws included, has Content-Type text/plain and a non-empty body
C18_PlainTextErrors ==
    \A i \in Conns : \A n \in ErrorResponses(conns[i]) :
        /\ ContentTypeOf(conns[i].written[n]) = TextPlain
        /\ BodyOf(conns[i].written[n]) # <<>>

(***************************************************************************)
(* C19                                                                     *)
(***************************************************************************)
\* the statuses, content types and bodies given to _generateResponse: with and
\* without a reason phrase, an absent and an empty body, and bodies that
\* contain a blank line or the text of a header field
Statuses == {200, 403, 500}
ContentTypes == {Undefined, TextPlain}
Bodies == {Undefined, <<>>, Chars("ok"), CRLF \o CRLF \o Chars("x"),
           CRLF \o Chars("Content-Length: 0") \o CRLF}

\* the header fields of a response, up to the blank line
HeadOf(response) == SubSeq(response, 1, IndexOf(response, CRLF \o CRLF) + 2)

\* the response declares an empty body
ZeroLength(response) ==
    IndexOf(HeadOf(response), CRLF \o Chars("Content-Length: 0") \o CRLF) # -1

\* a client reads in the response the status and the body it was built from,
\* and Content-Length: 0 exactly when no body was given
RoundTrip(response, status, body) ==
    /\ StatusOf(response) = status
    /\ BodyOf(response) = (IF Truthy(body) THEN body ELSE <<>>)
    /\ ZeroLength(response) <=> ~Truthy(body)

\* C19: for every status, content type and body given to _generateResponse, a
\* client parsing the response recovers the status and the body, and the
\* field Content-Length: 0 is present if and only if no body, absent or empty,
\* was given
C19_RoundTrip ==
    \A i \in Conns : \A status \in Statuses, contentType \in ContentTypes, body \in Bodies :
        RoundTrip(_generateResponse(conns[i], status, contentType, body), status, body)

\* C19 witness: a handler answered with a status alone and the response
\* written declares an empty body
C19_EmptyBodyWritten ==
    \E i \in Conns :
        /\ Len(conns[i].calls) = 1
        /\ conns[i].calls[1].answers = <<Result(200, Undefined, Undefined)>>
        /\ Len(conns[i].written) = 1
        /\ RoundTrip(conns[i].written[1], 200, Undefined)
        /\ ZeroLength(conns[i].written[1])
        /\ conns[i].origin = BOOKMARKLET_ORIGIN

(***************************************************************************)
(* C20                                                                     *)
(***************************************************************************)
\* the origin a response echoes in Access-Control-Allow-Origin, Null if none
EchoedOrigin(response) == TokenAfter(HeadOf(response), Chars("Access-Control-Allow-Origin:"))

\* the three CORS fields a client finds in a response
CorsFields(response) ==
    {name \in {Chars("Access-Control-Allow-Origin:"), Chars("Access-Control-Allow-Methods:"),
               Chars("Access-Control-Allow-Headers:")} :
        FieldStarts(HeadOf(response), name) # {}}

\* the response has the three CORS fields, echoing the connection's origin, when
\* the server is not headless and the origin is one of the bookmarklet's two,
\* and none of them otherwise
CorsPolicy(c, response) ==
    IF ~isServer /\ c.origin \in {BOOKMARKLET_ORIGIN, HTTP_BOOKMARKLET_ORIGIN}
    THEN Cardinality(CorsFields(response)) = 3 /\ EchoedOrigin(response) = c.origin
    ELSE CorsFields(response) = {}

\* C20: a response carries Access-Control-Allow-Origin echoing the request's
\* origin, Access-Control-Allow-Methods and Access-Control-Allow-Headers if and
\* only if the server is not headless and the connection's origin is one of the
\* two bookmarklet origins; this holds for every response written, the error
\* responses included, and no other origin is echoed
C20_Cors ==
    \A i \in Conns : \A n \in 1..Len(conns[i].written) :
        CorsPolicy(conns[i], conns[i].written[n])

\* C20 witness: the 400 for a missing Host field, sent to a request from the
\* bookmarklet's origin, carries the CORS fields
C20_CorsOnError ==
    \E i \in Conns :
        /\ conns[i].origin = BOOKMARKLET_ORIGIN
        /\ ~hostRe(conns[i].header)
        /\ Len(conns[i].written) = 1
        /\ StatusOf(conns[i].written[1]) = 400
        /\ EchoedOrigin(conns[i].written[1]) = BOOKMARKLET_ORIGIN

(***************************************************************************)
(* C21                                                                     *)
(***************************************************************************)
\* the decoded list has one descriptor per field, in the fields' order, each
\* with the field's header block, its payload, and its name under "name"
Described(fields, parts) ==
    /\ Len(fields) = Len(parts)
    /\ \A j \in 1..Len(parts) :
          /\ fields[j].header = Disposition(parts[j])
          /\ fields[j].body = parts[j].payload
          /\ Chars("name") \in DOMAIN fields[j].attributes
          /\ fields[j].attributes[Chars("name")] = parts[j].name

\* C21: for a multipart/form-data body of k fields between boundary delimiters,
\* init receives exactly k descriptors in the order of the fields, each with
\* the field's header block, its body equal to the payload without the
\* surrounding whitespace, and an attribute map in which the Content-Disposition
\* parameter name maps to its value
C21_MultipartFields ==
    \A i \in Conns : \A parts \in WindowsForms : \A k \in Invocations(conns[i]) :
        req[i] = MultipartPost(req[i].path, parts) =>
            /\ conns[i].calls[k].args.data.t = "multipart"
            /\ Described(conns[i].calls[k].args.data.v, parts)

(***************************************************************************)
(* C22                                                                     *)
(***************************************************************************)
\* C22: a multipart/form-data POST whose header has no boundary parameter, or
\* one of whose fields has no blank line between its header block and its
\* payload, is answered 400 once its endpoint is constructed, and init is never
\* invoked, so no partly decoded list of fields is passed on
C22_MalformedMultipart ==
    \A i \in Conns :
        req[i] \in MalformedPosts /\ Instantiations(conns[i]) # {} =>
            /\ Invocations(conns[i]) = {}
            /\ Len(conns[i].written) = 1
            /\ StatusOf(conns[i].written[1]) = 400

(***************************************************************************)
(* C29                                                                     *)
(***************************************************************************)
\* C29: each field is split into header block and body at whichever of LF LF and
\* CR LF CR LF occurs first; a field that contains only one of the two is split
\* at that one, so a form whose fields use either is decoded and passed to init
C29_EitherBlankLine ==
    \A i \in Conns : \A parts \in WindowsForms \cup UnixForms :
        req[i] = MultipartPost(req[i].path, parts) /\ Instantiations(conns[i]) # {} =>
            \A k \in Instantiations(conns[i]) :
                /\ conns[i].calls[k].invoked
                /\ Len(conns[i].calls[k].args.data.v) = Len(parts)
                /\ \A j \in 1..Len(parts) :
                      /\ conns[i].calls[k].args.data.v[j].header = Disposition(parts[j])
                      /\ conns[i].calls[k].args.data.v[j].body = parts[j].payload

(***************************************************************************)
(* C23                                                                     *)
(***************************************************************************)
\* C23: after any sequence of init, close and changes of the network's status
\* at most one server socket is bound, and it is the one serv records; init
\* while a socket is bound leaves the socket and its port as they are; close
\* while none is bound changes nothing, and init then binds again
C23_OneSocket ==
    /\ [](/\ Cardinality(server.sockets) <= 1
          /\ server.sockets = IF server.serv = 0 THEN {} ELSE {server.serv})
    /\ [][/\ InitCalled /\ server.serv # 0 =>
                server'.serv = server.serv /\ server'.sockets = server.sockets
          /\ CloseCalled /\ server.serv = 0 => server' = server
          /\ InitCalled /\ server.serv = 0 /\ ~server.offline =>
                server'.binds = server.binds + 1]_vars

\* C23 witness: a socket is bound on the port a caller named, by the third bind
\* of the server's life, after two that were closed or failed
C23_BoundAgain ==
    /\ server.serv = OtherPort
    /\ server.sockets = {OtherPort}
    /\ server.binds = 3

(***************************************************************************)
(* C24                                                                     *)
(***************************************************************************)
\* C24: init called while the network is offline binds no socket and leaves an
\* observer of the network's status registered, and no more than one observer
\* is ever registered; when the network then goes online the observer's init
\* binds the socket, unless the bind fails
C24_DeferredBind ==
    /\ [](server.observers <= 1)
    /\ [][/\ InitCalled /\ server.offline =>
                /\ server'.sockets = server.sockets
                /\ server'.binds = server.binds
                /\ server'.onlineObserverRegistered
          /\ StatusChanged /\ server.offline /\ server.onlineObserverRegistered
                           /\ server.serv = 0 =>
                server'.serv # 0 \/ server'.errors = server.errors + 1]_vars

\* C24 witness: init was called while the network was offline: the observer is
\* registered, no bind was ever attempted and no socket is recorded
C24_WaitingForOnline ==
    /\ server.offline
    /\ server.onlineObserverRegistered
    /\ server.observers = 1
    /\ server.binds = 0
    /\ server.serv = 0

(***************************************************************************)
(* C25                                                                     *)
(***************************************************************************)
\* C25: when the bind fails init records no socket, so serv names a socket
\* only if that socket is bound, and a later init called while online binds
\* again rather than finding the server already listening
C25_BindFailure ==
    /\ [](server.serv # 0 => server.serv \in server.sockets)
    /\ [][/\ InitCalled /\ server'.errors = server.errors + 1 => server'.serv = 0
          /\ InitCalled /\ server.errors > 0 /\ server.serv = 0 /\ ~server.offline =>
                server'.binds = server.binds + 1]_vars

\* C25 witness: two binds failed one after the other, and no socket is recorded
C25_FailedTwice ==
    /\ server.errors = 2
    /\ server.binds = 2
    /\ server.serv = 0

(***************************************************************************)
(* C26                                                                     *)
(***************************************************************************)
\* C26: once a connection's request was answered or stopped, close() was called
\* on its input stream and on its output stream, and on neither stream is
\* close() ever called more than once
C26_ClosedOnce ==
    \A i \in DOMAIN conns :
        /\ conns[i].iCloses <= 1
        /\ conns[i].oCloses <= 1
        /\ stopped[i] \/ conns[i].responseSent =>
              conns[i].iCloses = 1 /\ conns[i].oCloses = 1

(***************************************************************************)
(* C27                                                                     *)
(***************************************************************************)
\* the request of connection i named the bookmarklet's origin
NamedBookmarklet(i) == \E f \in 1..Len(req[i].fields) : req[i].fields[f] = FromBookmarklet

\* the response carries what a call of the listener c answered
OwnAnswer(c, response) ==
    \E k \in Invocations(c) :
        \E a \in 1..Len(c.calls[k].answers) : Carries(response, c.calls[k].answers[a])

\* C27: a step of one connection (data read, stop, a handler's answer, a promise
\* settled) changes nothing of any other connection, also while a promise of
\* another connection is pending; a response below 400 on a connection's stream
\* carries an answer of a handler invoked for that connection's own request, and
\* any response echoes the bookmarklet's origin exactly when the connection's own
\* request named it
C27_Isolated ==
    /\ [][\A i \in DOMAIN conns :
            conns'[i] # conns[i] \/ net'[i] # net[i] \/ stopped'[i] # stopped[i] =>
                \A j \in DOMAIN conns \ {i} :
                    conns'[j] = conns[j] /\ net'[j] = net[j] /\ stopped'[j] = stopped[j]]_vars
    /\ [](\A i \in DOMAIN conns :
            \A n \in 1..Len(conns[i].written) :
                /\ StatusOf(conns[i].written[n]) < 400 => OwnAnswer(conns[i], conns[i].written[n])
                /\ IF ~isServer /\ NamedBookmarklet(i)
                   THEN EchoedOrigin(conns[i].written[n]) = BOOKMARKLET_ORIGIN
                   ELSE CorsFields(conns[i].written[n]) = {})

\* C27 witness: the promise of the first connection's handler is still pending
\* and nothing was written to its stream, while a second connection, whose
\* request named the bookmarklet's origin, was accepted, dispatched and answered
C27_AnsweredWhilePending ==
    /\ Len(conns) = 2
    /\ conns[1].calls # <<>> /\ conns[1].calls[1].awaiting
    /\ conns[1].written = <<>>
    /\ ~isServer /\ NamedBookmarklet(2)
    /\ Invocations(conns[2]) # {}
    /\ Len(conns[2].written) = 1
    /\ StatusOf(conns[2].written[1]) = 201

(***************************************************************************)
(* C28                                                                     *)
(***************************************************************************)
\* the reason phrase of a response: what follows the status code and a space on
\* the status line
ReasonOf(response) ==
    SubSeq(response, RunEnd(response, 10, Digit) + 1, IndexOf(response, CRLF))

\* C28: the status code of every response written is a key of responseCodes,
\* and the status line carries the reason phrase the table gives for it
C28_ReasonPhrases ==
    \A i \in DOMAIN conns :
        \A n \in 1..Len(conns[i].written) :
            /\ StatusOf(conns[i].written[n]) \in DOMAIN responseCodes
            /\ ReasonOf(conns[i].written[n]) = responseCodes[StatusOf(conns[i].written[n])]

(***************************************************************************)
(* C30                                                                     *)
(***************************************************************************)
\* Handlers that complete: a promise a single-parameter handler returned is
\* settled, and a handler that was given sendResponseCallback calls it.
CompletingSpec ==
    /\ Init
    /\ [][Next]_vars
    /\ \A i \in Conns : WF_vars(PromiseResolves(i) \/ PromiseRejects(i))
    /\ \A i \in Conns : WF_vars(HandlerResponds(i))

\* the header of connection i is finished, and its method is not POST or every
\* byte the client sent, the body that its Content-Length declares among them,
\* has been read
Complete(i) ==
    /\ conns[i].headerFinished
    /\ HeaderVerdict(conns[i].header).branch = "POST" => net[i] = <<>>

\* C30: once the header of a connection is finished and, for a POST, the body
\* its Content-Length declares has been read, a response is eventually written
\* to the connection, given that the handler completes and unless the transport
\* stops the request first
C30_EventuallyAnswered ==
    \A i \in Conns : Complete(i) ~> (conns[i].written # <<>> \/ stopped[i])

(***************************************************************************)
(* C31                                                                     *)
(***************************************************************************)
\* C31: once onStopRequest has run on a connection nothing touches its streams
\* any more: no write to the output stream is attempted and close() is called
\* on neither stream, whatever handler completes afterwards
C31_DiscardedAfterStop ==
    [][\A i \in DOMAIN conns :
          stopped[i] =>
              /\ conns'[i].failedWrites = conns[i].failedWrites
              /\ conns'[i].written = conns[i].written
              /\ conns'[i].iCloses = conns[i].iCloses
              /\ conns'[i].oCloses = conns[i].oCloses]_vars

(***************************************************************************)
(* C32                                                                     *)
(***************************************************************************)
\* C32: when calls of init were deferred because the browser was offline, the
\* socket that is bound when the network goes online is bound on a port that a
\* deferred call asked for
C32_DeferredPort ==
    [][StatusChanged /\ server.serv = 0 /\ server.deferred # {} /\ server'.serv # 0 =>
          server'.serv \in server.deferred]_vars

(***************************************************************************)
(* C33                                                                     *)
(***************************************************************************)
\* C33: after close() released the socket no socket is bound until the owner
\* calls init again, whatever the network's status does in between
C33_UnboundUntilInit == server.released => server.serv = 0 /\ server.sockets = {}

====
